---- MODULE Spec2Model ----
(***************************************************************************)
(* A model of the SEEDS simulation engine (briandconnelly/seeds):          *)
(* Population and its per-epoch update scheduler, the built-in cell state  *)
(* machines (RPSCell, Kerr07Cell, GameOfLifeCell), the incremental         *)
(* type_count / transitions bookkeeping, and the NormalResource cell.      *)
(*                                                                         *)
(* Python lists are modelled as TLA+ sequences; Python index i is TLA+     *)
(* index i + 1.  Draws from the pseudo-random generator are modelled as    *)
(* nondeterministic choices.                                               *)
(***************************************************************************)
EXTENDS Integers, Sequences, FiniteSets, TLC

VARIABLES
    cell_class,        \* Population._cell_class: name of the configured Cell plugin
    nodes,             \* topology.graph.nodes()
    adj,               \* topology.graph adjacency: node -> set of adjacent nodes
    ctype,             \* node -> type of the Cell stored in graph.node[n]['cell']
    cneighbors,        \* node -> Cell.neighbors, the cached neighbor list of that Cell
    cell_id,           \* node -> Cell.id of the Cell stored on that node
    cell_id_manager,   \* Population.cell_id_manager: the next id to hand out
    data,              \* experiment.data['population']: type_count and transitions
    events_per_epoch,  \* the config entry events_per_epoch: <<>> when unset, <<k>> when set
    samples_left,      \* Population.update: how many of nodes_to_update are not yet
                       \* iterated over (each sample is drawn when it is reached)
    pc,                \* position of Population.update: "idle", "updating", "crashed"
    user_events,       \* history: events_per_epoch as the user configured it
    nodes_at_start,    \* history: number of nodes when the current update began
    epoch_start,       \* history: ctype when the current update began
    updates_done,      \* history: cell updates made by the current update
    type_changes,      \* history: cell updates of the current update that changed a type
    ran,               \* history: has Population.update ever been called
    prev_changed,      \* history: did the previous update change a cell's type
    res_adj,           \* resource topology: node -> set of adjacent nodes
    level,             \* node -> ResourceCell.level of the cell on that node
    levels,            \* data['resources'][name]['levels']: id -> mirrored level
    inflow,            \* NormalResource.inflow
    decay,             \* NormalResource.decay
    diffusion,         \* NormalResource.diffusion
    initial,           \* NormalResource.initial
    res_updates,       \* number of NormalResource.update calls made so far
    last_update,       \* history: << >>, or <<r>> with r the record of the latest
                       \* NormalResource.update (nothing has set a level since)
    epoch,             \* Experiment.epoch
    proceed,           \* Experiment.proceed
    experiment_epochs, \* Experiment.experiment_epochs: the configured epochs, -1 when unset
    exp_pc,            \* position of the run: "none" (nothing iterates the Experiment),
                       \* "idle" (between two calls of __next__), "resources" and
                       \* "population" (inside Experiment.update, before that line),
                       \* "in_population" (inside population.update), "stopped"
    threshold,         \* StopOnConvergence.threshold: << >> when the action is not
                       \* configured, <<k>> when it is
    soc_epoch_start,   \* StopOnConvergence.epoch_start
    end_epoch,         \* history: the epoch during which Experiment.end was first
                       \* called, -1 when it has not been called
    pop_updates,       \* history: number of calls of population.update by Experiment.update
    res_rounds,        \* history: number of executions of line 218 (resource updates)
    last_soc,          \* history: << >>, or <<r>> with r the record of the latest
                       \* execution of StopOnConvergence.update that was not skipped
    visited,           \* history: the nodes sampled so far by the current
                       \* Population.update (kept only where the sampled sequence is
                       \* required to visit every node once)
    seed,              \* history: the types the population was seeded with (kept
                       \* only for a seeded lattice)
    topology,          \* a Topology object under construction or built: a record of
                       \* its configuration and its graph (<< >> when none is modelled)
    call,              \* the latest call made on the modelled object: its arguments
                       \* and what it returned or raised (<< >> before any call)
    cell_attrs,        \* node -> the attributes a Cell subclass adds to a Cell
                       \* (<< >> when the Cell class adds none)
    config             \* the configuration section of the modelled object (<< >>
                       \* when no configured value is modelled)

popvars == <<cell_class, nodes, adj, ctype, cneighbors, cell_id, cell_id_manager,
             data, events_per_epoch, samples_left, pc, user_events,
             nodes_at_start, epoch_start, updates_done, type_changes, ran,
             prev_changed>>

resvars == <<res_adj, level, levels, inflow, decay, diffusion, initial,
             res_updates, last_update>>

expvars == <<epoch, proceed, experiment_epochs, exp_pc, threshold,
             soc_epoch_start, end_epoch, pop_updates, res_rounds, last_soc>>

schedvars == <<visited, seed>>

topovars == <<topology, call>>

cellvars == <<cell_attrs, config>>

vars == <<popvars, resvars, expvars, schedvars, topovars, cellvars>>

----------------------------------------------------------------------------
(* Bounds of the model *)

MaxNodes == 3
MaxEvents == 2

----------------------------------------------------------------------------
(* Cell plugins: type indices and max_types *)

ROCK == 0
PAPER == 1
SCISSORS == 2

EMPTY == 0
SENSITIVE == 1
RESISTANT == 2
PRODUCER == 3

ALIVE == 0
DEAD == 1

NARROW == 1
WIDE == 2

CellClasses == {"RPSCell", "Kerr07Cell", "GameOfLifeCell"}

\* QuasispeciesCell defines no max_types: it has the 0 of Cell
max_types(cls) ==
    CASE cls = "RPSCell" -> 3
      [] cls = "Kerr07Cell" -> 4
      [] cls = "GameOfLifeCell" -> 2
      [] cls = "QuasispeciesCell" -> 0

\* len(self.types)
num_types(cls) ==
    CASE cls = "RPSCell" -> 3
      [] cls = "Kerr07Cell" -> 4
      [] cls = "GameOfLifeCell" -> 2
      [] cls = "QuasispeciesCell" -> 3

TypesOf(cls) == 0 .. (num_types(cls) - 1)

----------------------------------------------------------------------------
(* Population: type_count and transitions bookkeeping *)

Zeros(k) == [i \in 1 .. k |-> 0]

\* increment_type_count: the list is extended with zeros up to index `type`
increment_type_count(tc, type) ==
    LET ext == IF Len(tc) <= type THEN tc \o Zeros(1 + type - Len(tc)) ELSE tc
    IN  [ext EXCEPT ![type + 1] = @ + 1]

\* decrement_type_count: type_count[type] -= 1 (IndexError when there is no such entry)
decrement_type_count_raises(tc, type) == type >= Len(tc)

decrement_type_count(tc, type) == [tc EXCEPT ![type + 1] = @ - 1]

\* Faulty variant of add_transition that counts nothing (sensitivity of C4)
add_transition_dropped(tr, fromtype, totype) == tr

\* add_transition: transitions[fromtype][totype] += 1
add_transition_raises(tr, fromtype, totype) ==
    \/ fromtype >= Len(tr)
    \/ totype >= Len(tr[fromtype + 1])

add_transition(tr, fromtype, totype) ==
    [tr EXCEPT ![fromtype + 1][totype + 1] = @ + 1]

\* Faulty variant of update_type_count that forgets the decrement (sensitivity of C1)
update_type_count_no_decrement(d, fromtype, totype) ==
    [type_count |-> increment_type_count(d.type_count, totype),
     transitions |-> add_transition(d.transitions, fromtype, totype)]

\* update_type_count: decrement, increment, add_transition, in this order
update_type_count(d, fromtype, totype) ==
    [type_count |-> increment_type_count(
                        decrement_type_count(d.type_count, fromtype), totype),
     transitions |-> add_transition(d.transitions, fromtype, totype)]

\* get_cell_id.  An id is only ever compared with node ids, which are below
\* MaxNodes: the counter stops at MaxNodes, which stands for every later id.
get_cell_id_next(counter) == IF counter < MaxNodes THEN counter + 1 ELSE counter

\* Faulty variant of reset_transitions that keeps an existing matrix (sensitivity of C5)
reset_transitions_carry_over(k) ==
    IF data.transitions = << >> THEN [i \in 1 .. k |-> Zeros(k)] ELSE data.transitions

\* The transitions matrix Population.update creates: num_types rows of num_types zeros
reset_transitions(k) == [i \in 1 .. k |-> Zeros(k)]

\* sample_with_replacement(items, k): the list has k samples (none when k < 1),
\* each of them items[int(random() * popsize)], any one of the items.  The draws
\* do not depend on the cells, and the graph does not change while update runs,
\* so the model keeps the number of samples not yet iterated over and draws each
\* sample when the iteration reaches it.
sample_with_replacement_len(items, k) == IF k < 1 THEN 0 ELSE k

sample_with_replacement_item(items) == items

----------------------------------------------------------------------------
(* Construction *)

\* Population.__init__: type_count once the constructors of the first k Cells,
\* in node order, have each called increment_type_count with the type drawn
RECURSIVE construct_type_count(_, _)
construct_type_count(types, k) ==
    IF k = 0 THEN << >>
    ELSE increment_type_count(construct_type_count(types, k - 1), types[k - 1])

\* The graphs a topology plugin hands to the Population, on the nodes 0 .. n-1:
\* no edges (a lattice of radius 0), one edge, a path, and the complete graph
edge_graph(n, E) ==
    [i \in 0 .. (n - 1) |-> {j \in 0 .. (n - 1) : <<i, j>> \in E \/ <<j, i>> \in E}]

Graphs(n) ==
    {edge_graph(n, {}),
     edge_graph(n, {<<0, 1>>} \cap ((0 .. (n - 1)) \X (0 .. (n - 1)))),
     edge_graph(n, {<<i, i + 1>> : i \in 0 .. (n - 2)}),
     edge_graph(n, {<<i, j>> \in (0 .. (n - 1)) \X (0 .. (n - 1)) : i < j})}

\* An experiment whose configuration has no [Resource:...] section
no_resources ==
    /\ res_adj = << >>
    /\ level = << >>
    /\ levels = << >>
    /\ inflow = <<0, 0>>
    /\ decay = <<0, 0>>
    /\ diffusion = <<0, 0>>
    /\ initial = <<0, 0>>
    /\ res_updates = 0
    /\ last_update = << >>

\* Experiment.__init__, and nothing that iterates the Experiment: the
\* Population's methods are called directly
\* No topology is built on its own and no call is recorded
no_topology ==
    /\ topology = << >>
    /\ call = << >>

no_cells ==
    /\ cell_attrs = << >>
    /\ config = << >>

no_experiment ==
    /\ visited = {}
    /\ seed = << >>
    /\ epoch = 0
    /\ proceed = TRUE
    /\ experiment_epochs = -1
    /\ exp_pc = "none"
    /\ threshold = << >>
    /\ soc_epoch_start = 0
    /\ end_epoch = -1
    /\ pop_updates = 0
    /\ res_rounds = 0
    /\ last_soc = << >>

\* State after Population.__init__ on a topology of at most maxn nodes, with
\* events_per_epoch configured as one of event_configs
InitPopulation(maxn, event_configs) ==
    /\ cell_class \in CellClasses
    /\ \E n \in 1 .. maxn :
          /\ nodes = 0 .. (n - 1)
          /\ adj \in Graphs(n)
          /\ ctype \in [0 .. (n - 1) -> TypesOf(cell_class)]
          /\ cell_id = [c \in 0 .. (n - 1) |-> c]
          /\ cell_id_manager = n
          /\ data = [type_count |-> construct_type_count(ctype, n),
                     transitions |-> << >>]
          /\ nodes_at_start = n
    /\ cneighbors = adj
    /\ events_per_epoch \in event_configs
    /\ user_events = events_per_epoch
    /\ samples_left = 0
    /\ pc = "idle"
    /\ epoch_start = ctype
    /\ updates_done = 0
    /\ type_changes = 0
    /\ ran = FALSE
    /\ prev_changed = FALSE

\* State after Experiment.setup has built the Population
Init ==
    /\ no_cells
    /\ no_resources
    /\ no_topology
    /\ no_experiment
    /\ InitPopulation(MaxNodes, {<< >>} \cup {<<k>> : k \in 0 .. MaxEvents})

----------------------------------------------------------------------------
(* Population.update *)

\* Config.getint(name='events_per_epoch', default=len(graph))
events_getint(cfg, default) == IF cfg = << >> THEN default ELSE cfg[1]

\* Lines 120-129: reset the transitions, read events_per_epoch, draw the samples
Population_update ==
    /\ pc = "idle"
    /\ exp_pc \in {"none", "population"}
    /\ exp_pc' = IF exp_pc = "population" THEN "in_population" ELSE exp_pc
    /\ pop_updates' = IF exp_pc = "population" THEN pop_updates + 1 ELSE pop_updates
    /\ UNCHANGED <<epoch, proceed, experiment_epochs, threshold, soc_epoch_start,
                   end_epoch, res_rounds, last_soc>>
    /\ LET events == events_getint(events_per_epoch, Cardinality(nodes)) IN
          /\ data' = [data EXCEPT !.transitions = reset_transitions(max_types(cell_class))]
          /\ events_per_epoch' = <<events>>
          /\ IF nodes = {} /\ events >= 1
             THEN /\ pc' = "crashed"              \* items[0] of an empty list: IndexError
                  /\ samples_left' = 0
             ELSE /\ pc' = "updating"
                  /\ samples_left' = sample_with_replacement_len(nodes, events)
    /\ nodes_at_start' = Cardinality(nodes)
    /\ epoch_start' = ctype
    /\ updates_done' = 0
    /\ type_changes' = 0
    /\ ran' = TRUE
    /\ prev_changed' = (type_changes > 0)
    /\ UNCHANGED <<cell_class, nodes, adj, ctype, cneighbors, cell_id,
                   cell_id_manager, user_events>>
    /\ UNCHANGED resvars
    /\ UNCHANGED schedvars
    /\ UNCHANGED cellvars
    /\ UNCHANGED topovars

\* Faulty variant of neighbor_type that reads the start-of-epoch snapshot (sensitivity of C7)
neighbor_type_snapshot(c) == epoch_start[c]

\* The type a Cell reads from one of its cached neighbors: that Cell's current type
neighbor_type(c) == ctype[c]

\* Faulty variant of set_type that retypes every cell of the old type (sensitivity of C17)
set_type_of_all(n, old, new) ==
    /\ ctype' = [m \in DOMAIN ctype |-> IF ctype[m] = old THEN new ELSE ctype[m]]
    /\ data' = update_type_count(data, old, new)
    /\ type_changes' = IF old # new THEN type_changes + 1 ELSE type_changes

\* A Cell sets self.type and reports it with update_type_count
set_type(n, old, new) ==
    /\ ctype' = [ctype EXCEPT ![n] = new]
    /\ data' = update_type_count(data, old, new)
    /\ type_changes' = IF old # new THEN type_changes + 1 ELSE type_changes

keep_type == UNCHANGED <<ctype, data, type_changes>>

\* The iteration of line 130 moves on to the next sample
next_sample ==
    /\ samples_left' = samples_left - 1
    /\ updates_done' = updates_done + 1
    /\ pc' = pc

\* An exception leaves Population.update (and the run)
raise_exception ==
    /\ samples_left' = 0
    /\ pc' = "crashed"
    /\ UNCHANGED <<ctype, data, type_changes, updates_done, cell_id, cell_id_manager>>

\* Faulty variant of RPS_outcome in which any competitor of another type takes
\* the cell over (sensitivity of C33)
RPS_outcome_any_competitor(self, comp) == comp

\* Faulty variant of RPS_outcome with the dominance reversed (sensitivity of C16)
RPS_outcome_reversed(self, comp) ==
    IF self = ROCK /\ comp = SCISSORS THEN SCISSORS
    ELSE IF self = PAPER /\ comp = ROCK THEN ROCK
    ELSE IF self = SCISSORS /\ comp = PAPER THEN PAPER
    ELSE self

\* RPSCell.update: the type the cell has after competing with a neighbor of type comp
RPS_outcome(self, comp) ==
    IF self = ROCK /\ comp = PAPER THEN PAPER
    ELSE IF self = PAPER /\ comp = SCISSORS THEN SCISSORS
    ELSE IF self = SCISSORS /\ comp = ROCK THEN ROCK
    ELSE self

RPSCell_update ==
    /\ pc = "updating" /\ samples_left > 0
    /\ cell_class = "RPSCell"
    /\ \E n \in sample_with_replacement_item(nodes) :
          IF cneighbors[n] = {}
          THEN /\ keep_type /\ next_sample
               /\ UNCHANGED <<cell_id, cell_id_manager>>
          ELSE \E competitor \in cneighbors[n] :
                  LET new == RPS_outcome(ctype[n], neighbor_type(competitor)) IN
                  /\ IF new # ctype[n]
                     THEN /\ set_type(n, ctype[n], new)
                          /\ cell_id' = [cell_id EXCEPT ![n] = cell_id_manager]
                          /\ cell_id_manager' = get_cell_id_next(cell_id_manager)
                     ELSE /\ keep_type
                          /\ UNCHANGED <<cell_id, cell_id_manager>>
                  /\ next_sample
    /\ UNCHANGED <<cell_class, nodes, adj, cneighbors, events_per_epoch,
                   user_events, nodes_at_start, epoch_start, ran, prev_changed>>
    /\ UNCHANGED resvars
    /\ UNCHANGED schedvars
    /\ UNCHANGED cellvars
    /\ UNCHANGED topovars
    /\ UNCHANGED expvars

\* Kerr07Cell.update
Kerr07Cell_update ==
    /\ pc = "updating" /\ samples_left > 0
    /\ cell_class = "Kerr07Cell"
    /\ \E n \in sample_with_replacement_item(nodes) :
          CASE ctype[n] = EMPTY ->
                  IF cneighbors[n] = {}
                  THEN raise_exception          \* random.choice([]): IndexError
                  ELSE \E parent \in cneighbors[n] :
                          /\ set_type(n, EMPTY, neighbor_type(parent))
                          /\ next_sample
                          /\ UNCHANGED <<cell_id, cell_id_manager>>
            [] ctype[n] = SENSITIVE ->
                  IF cneighbors[n] = {}
                  THEN raise_exception          \* division by num_neighbors = 0
                  ELSE \E dies \in BOOLEAN :
                          /\ IF dies THEN set_type(n, SENSITIVE, EMPTY) ELSE keep_type
                          /\ next_sample
                          /\ UNCHANGED <<cell_id, cell_id_manager>>
            [] ctype[n] \in {RESISTANT, PRODUCER} ->
                  \E dies \in BOOLEAN :
                      /\ IF dies THEN set_type(n, ctype[n], EMPTY) ELSE keep_type
                      /\ next_sample
                      /\ UNCHANGED <<cell_id, cell_id_manager>>
    /\ UNCHANGED <<cell_class, nodes, adj, cneighbors, events_per_epoch,
                   user_events, nodes_at_start, epoch_start, ran, prev_changed>>
    /\ UNCHANGED resvars
    /\ UNCHANGED schedvars
    /\ UNCHANGED cellvars
    /\ UNCHANGED topovars
    /\ UNCHANGED expvars

\* Faulty variant of num_live_neighbors that reads the types the neighbors had
\* when the epoch began (sensitivity of C20)
num_live_neighbors_at_epoch_start(n) ==
    Cardinality({m \in cneighbors[n] : epoch_start[m] = ALIVE})

\* GameOfLifeCell.update: num_live_neighbors
num_live_neighbors(n) ==
    Cardinality({m \in cneighbors[n] : neighbor_type(m) = ALIVE})

\* Faulty variant of GameOfLife_outcome in which a crowded cell survives (sensitivity of C18)
GameOfLife_outcome_crowded(self, live) ==
    IF self = ALIVE /\ live < 2 THEN DEAD
    ELSE IF self = DEAD /\ live = 3 THEN ALIVE
    ELSE self

GameOfLife_outcome(self, live) ==
    IF self = ALIVE /\ live < 2 THEN DEAD
    ELSE IF self = ALIVE /\ live > 3 THEN DEAD
    ELSE IF self = DEAD /\ live = 3 THEN ALIVE
    ELSE self

\* GameOfLifeCell.update of the cell on node n
GameOfLifeCell_update_node(n) ==
    IF cneighbors[n] = {}
    THEN keep_type
    ELSE LET new == GameOfLife_outcome(ctype[n], num_live_neighbors(n)) IN
         IF new # ctype[n] THEN set_type(n, ctype[n], new) ELSE keep_type

GameOfLifeCell_update ==
    /\ pc = "updating" /\ samples_left > 0
    /\ cell_class = "GameOfLifeCell"
    /\ \E n \in sample_with_replacement_item(nodes) : GameOfLifeCell_update_node(n)
    /\ next_sample
    /\ UNCHANGED <<cell_class, nodes, adj, cneighbors, cell_id, cell_id_manager,
                   events_per_epoch, user_events, nodes_at_start, epoch_start, ran, prev_changed>>
    /\ UNCHANGED resvars
    /\ UNCHANGED schedvars
    /\ UNCHANGED cellvars
    /\ UNCHANGED topovars
    /\ UNCHANGED expvars

\* Population.update returns once every sample has been iterated over
Population_update_return ==
    /\ pc = "updating" /\ samples_left = 0
    /\ pc' = "idle"
    /\ UNCHANGED <<cell_class, nodes, adj, ctype, cneighbors, cell_id,
                   cell_id_manager, data, events_per_epoch, samples_left,
                   user_events, nodes_at_start, epoch_start, updates_done,
                   type_changes, ran, prev_changed>>
    /\ UNCHANGED resvars
    /\ UNCHANGED schedvars
    /\ UNCHANGED cellvars
    /\ UNCHANGED topovars
    /\ UNCHANGED expvars

\* Population.remove_cell(cell) on a topology that keeps Topology.remove_node:
\* the node cell.id leaves the graph with its edges; NonExistentNodeError is
\* caught and printed.  Nothing else is touched.
Topology_remove_node(id) ==
    /\ nodes' = nodes \ {id}
    /\ adj' = [m \in DOMAIN adj |-> IF m = id THEN {} ELSE adj[m] \ {id}]

Population_remove_cell ==
    /\ pc = "idle"
    /\ \E cell \in DOMAIN ctype :
          IF cell_id[cell] \in nodes
          THEN Topology_remove_node(cell_id[cell])
          ELSE UNCHANGED <<nodes, adj>>
    /\ UNCHANGED <<cell_class, ctype, cneighbors, cell_id, cell_id_manager, data,
                   events_per_epoch, samples_left, pc, user_events,
                   nodes_at_start, epoch_start, updates_done, type_changes, ran, prev_changed>>
    /\ UNCHANGED resvars
    /\ UNCHANGED schedvars
    /\ UNCHANGED cellvars
    /\ UNCHANGED topovars
    /\ UNCHANGED expvars

Next ==
    \/ Population_update
    \/ RPSCell_update
    \/ Kerr07Cell_update
    \/ GameOfLifeCell_update
    \/ Population_update_return

\* A population on a fixed topology
Spec == Init /\ [][Next]_vars

NextMutable ==
    \/ Next
    \/ Population_remove_cell

\* A population on a topology that permits node removal
SpecMutable == Init /\ [][NextMutable]_vars

----------------------------------------------------------------------------
(* Levels of a resource.  A level is a float; the model computes with the    *)
(* dyadic rationals num / 2^exp, written <<num, exp>> in lowest terms, on    *)
(* which the float operations of NormalResource.update are exact.            *)

RECURSIVE Pow2(_)
Pow2(k) == IF k = 0 THEN 1 ELSE 2 * Pow2(k - 1)

RECURSIVE Norm(_, _)
Norm(num, exp) ==
    IF exp > 0 /\ num % 2 = 0 THEN Norm(num \div 2, exp - 1) ELSE <<num, exp>>

MaxExp(a, b) == IF a[2] > b[2] THEN a[2] ELSE b[2]

\* The numerator of a over the denominator 2^k, for k >= a[2]
Scaled(a, k) == a[1] * Pow2(k - a[2])

\* a + b
fadd(a, b) == LET k == MaxExp(a, b) IN Norm(Scaled(a, k) + Scaled(b, k), k)

\* a - b
fsub(a, b) == LET k == MaxExp(a, b) IN Norm(Scaled(a, k) - Scaled(b, k), k)

\* a * b
fmul(a, b) == Norm(a[1] * b[1], a[2] + b[2])

\* a < b
flt(a, b) == LET k == MaxExp(a, b) IN Scaled(a, k) < Scaled(b, k)

\* max(a, b) and min(a, b)
fmax(a, b) == IF flt(a, b) THEN b ELSE a

fmin(a, b) == IF flt(b, a) THEN b ELSE a

Zero == <<0, 0>>
One == <<1, 0>>
Half == <<1, 1>>

RECURSIVE fsum(_, _)
fsum(lv, S) ==
    IF S = {} THEN Zero
    ELSE LET n == CHOOSE m \in S : TRUE IN fadd(lv[n], fsum(lv, S \ {n}))

----------------------------------------------------------------------------
(* NormalResource *)

MaxResNodes == 3
MaxResUpdates == 3

\* The values the configuration gives inflow, decay, diffusion and initial.
\* The constructor rejects inflow < 0 and decay or diffusion outside [0, 1];
\* it does not look at initial.
NormalResource_accepts(i, dc, df) ==
    /\ ~flt(i, Zero)
    /\ ~flt(df, Zero) /\ ~flt(One, df)
    /\ ~flt(dc, Zero) /\ ~flt(One, dc)

InflowValues == {Zero, One}
DecayValues == {Zero, Half, One}
DiffusionValues == {Zero, Half, One}
InitialValues == {<<-1, 0>>, Zero, <<2, 0>>}

\* An experiment whose population plays no part
no_population ==
    /\ cell_class = "GameOfLifeCell"
    /\ nodes = {}
    /\ adj = << >>
    /\ ctype = << >>
    /\ cneighbors = << >>
    /\ cell_id = << >>
    /\ cell_id_manager = 0
    /\ data = [type_count |-> << >>, transitions |-> << >>]
    /\ events_per_epoch = <<0>>
    /\ user_events = <<0>>
    /\ samples_left = 0
    /\ pc = "idle"
    /\ nodes_at_start = 0
    /\ epoch_start = << >>
    /\ updates_done = 0
    /\ type_changes = 0
    /\ ran = FALSE
    /\ prev_changed = FALSE

\* State after Experiment.setup has built one NormalResource resource: one
\* cell per node of the resource's topology, its id the node's id, its level
\* `initial`; the levels list holds the level of every cell.
InitRes ==
    /\ no_cells
    /\ no_population
    /\ no_experiment
    /\ no_topology
    /\ \E n \in 1 .. MaxResNodes :
          /\ res_adj \in Graphs(n)
          /\ initial \in InitialValues
          /\ level = [c \in 0 .. (n - 1) |-> initial]
    /\ levels = level
    /\ inflow \in InflowValues
    /\ decay \in DecayValues
    /\ diffusion \in DiffusionValues
    /\ NormalResource_accepts(inflow, decay, diffusion)
    /\ res_updates = 0
    /\ last_update = << >>

\* low_neighbors after the sort of line 175: the neighbors below self_level,
\* in ascending order of level.  The sort is stable, and the order of
\* self.neighbors is the graph's: neighbors of equal level come in any order.
low_neighbors(c, self_level) ==
    LET low == {n \in res_adj[c] : flt(level[n], self_level)} IN
    {order \in [1 .. Cardinality(low) -> low] :
        /\ \A i, j \in DOMAIN order : i # j => order[i] # order[j]
        /\ \A i, j \in DOMAIN order : i < j => ~flt(level[order[j]], level[order[i]])}

\* xfer of line 184
xfer_amount(self_level, neighbor_level) ==
    fmul(fmin(self_level, fsub(self_level, neighbor_level)), diffusion)

\* The loop of lines 182-186 over the neighbors still to serve.  It returns the
\* levels it leaves, and the transfers it made in the order it made them.
RECURSIVE transfer(_, _, _, _)
transfer(order, self_level, lv, log) ==
    IF order = << >> THEN [self_level |-> self_level, lv |-> lv, log |-> log]
    ELSE LET n == Head(order) IN
         IF flt(lv[n], self_level)
         THEN LET xfer == xfer_amount(self_level, lv[n]) IN
              transfer(Tail(order), fsub(self_level, xfer),
                       [lv EXCEPT ![n] = fadd(@, xfer)],
                       Append(log, [to |-> n, xfer |-> xfer,
                                    self_level |-> self_level,
                                    neighbor_level |-> lv[n]]))
         ELSE transfer(Tail(order), self_level, lv, log)

\* NormalResource.update of the cell on node c
NormalResource_update(c) ==
    /\ res_updates < MaxResUpdates
    /\ LET newlevel == fadd(fmul(level[c], fsub(One, decay)), inflow)
           self_level == fmax(Zero, newlevel)
       IN  \E order \in low_neighbors(c, self_level) :
              LET done == transfer(order, self_level, level, << >>) IN
              /\ level' = [done.lv EXCEPT ![c] = fmax(Zero, newlevel)]
              /\ levels' = [levels EXCEPT ![c] = fmax(Zero, newlevel)]
              /\ last_update' = <<[cell |-> c, before |-> level,
                                   self_level |-> self_level, log |-> done.log]>>
    /\ res_updates' = res_updates + 1
    /\ UNCHANGED <<res_adj, inflow, decay, diffusion, initial>>
    /\ UNCHANGED popvars
    /\ UNCHANGED expvars
    /\ UNCHANGED schedvars
    /\ UNCHANGED cellvars
    /\ UNCHANGED topovars

\* The resource's scheduler updates one cell of its topology at a time
Resource_update ==
    \E c \in DOMAIN res_adj : NormalResource_update(c)

\* The level a SetNormalResourceProperties action is configured with: a level
\* below 0 is rejected, and a level of 0 is not applied
SetLevelValues == {<<2, 0>>}

\* SetNormalResourceProperties.update, configured with `level` and `cells`
SetNormalResourceProperties_update ==
    /\ res_updates < MaxResUpdates
    /\ \E cells \in (SUBSET DOMAIN res_adj) \ {{}} :
       \E value \in SetLevelValues :
          /\ level' = [c \in DOMAIN level |-> IF c \in cells THEN value ELSE level[c]]
          /\ level' # level
    /\ last_update' = << >>
    /\ UNCHANGED <<res_adj, levels, inflow, decay, diffusion, initial, res_updates>>
    /\ UNCHANGED popvars
    /\ UNCHANGED expvars
    /\ UNCHANGED schedvars
    /\ UNCHANGED cellvars
    /\ UNCHANGED topovars

NextRes ==
    \/ Resource_update
    \/ SetNormalResourceProperties_update

\* A NormalResource resource
SpecRes == InitRes /\ [][NextRes]_vars

----------------------------------------------------------------------------
(* Experiment: the iteration protocol, Experiment.update, and the            *)
(* StopOnConvergence action                                                   *)

MaxExpNodes == 2
MaxEpochs == 3

\* Faulty variant of next_raises_StopIteration that never stops (sensitivity of C14)
next_never_raises(p) == FALSE

\* __next__: StopIteration is raised when proceed is false
next_raises_StopIteration(p) == ~p

\* Action.skip_update, for an enabled action of frequency 1
skip_update(e, epoch_start_, epoch_end_) ==
    \/ e < epoch_start_
    \/ (epoch_end_ # -1 /\ e > epoch_end_)
    \/ (e - epoch_start_) % 1 # 0

\* StopOnConvergence.update: the number of entries of type_count above 0
num_active_types(tc) == Cardinality({i \in DOMAIN tc : tc[i] > 0})

\* StopOnConvergence.update: converged stays True unless
\* num_active_types >= self.threshold
converged(tc, th) == ~(num_active_types(tc) >= th)

\* Faulty variant of proceed_after_update that recomputes the flag (sensitivity of C12)
proceed_recomputed(p, e, n) == ~(n # -1 /\ e >= n)

\* Experiment.update, lines 223-225: proceed once the epoch counter is e
proceed_after_update(p, e, n) == IF n # -1 /\ e >= n THEN FALSE ELSE p

\* State after Experiment.setup: a Population, no Resource, and the action
\* StopOnConvergence when it is configured (epoch_end defaults to the
\* configured epochs, frequency to 1)
InitExp ==
    /\ no_cells
    /\ no_resources
    /\ no_topology
    /\ visited = {}
    /\ seed = << >>
    /\ InitPopulation(MaxExpNodes, {<< >>})
    /\ epoch = 0
    /\ proceed = TRUE
    /\ experiment_epochs \in {-1} \cup (0 .. MaxEpochs)
    /\ exp_pc = "idle"
    /\ threshold \in {<< >>, <<1>>, <<2>>}
    /\ soc_epoch_start \in IF threshold = << >> THEN {0} ELSE {0, 1}
    /\ end_epoch = -1
    /\ pop_updates = 0
    /\ res_rounds = 0
    /\ last_soc = << >>

\* __next__ when proceed is false: StopIteration, the iteration is over
Experiment_next_stop ==
    /\ exp_pc = "idle"
    /\ next_raises_StopIteration(proceed)
    /\ exp_pc' = "stopped"
    /\ UNCHANGED <<epoch, proceed, experiment_epochs, threshold, soc_epoch_start,
                   end_epoch, pop_updates, res_rounds, last_soc>>
    /\ UNCHANGED popvars
    /\ UNCHANGED resvars
    /\ UNCHANGED schedvars
    /\ UNCHANGED cellvars
    /\ UNCHANGED topovars

\* __next__ when proceed is true calls Experiment.update; line 217 runs the
\* actions: StopOnConvergence.update, which may call Experiment.end
Experiment_update_actions ==
    /\ exp_pc = "idle"
    /\ ~next_raises_StopIteration(proceed)
    /\ epoch < MaxEpochs
    /\ IF threshold # << >> /\ ~skip_update(epoch, soc_epoch_start, experiment_epochs)
       THEN LET ends == converged(data.type_count, threshold[1]) IN
            /\ proceed' = IF ends THEN FALSE ELSE proceed
            /\ end_epoch' = IF ends /\ end_epoch = -1 THEN epoch ELSE end_epoch
            /\ last_soc' = <<[active |-> num_active_types(data.type_count),
                              ended |-> ends]>>
       ELSE UNCHANGED <<proceed, end_epoch, last_soc>>
    /\ exp_pc' = "resources"
    /\ UNCHANGED <<epoch, experiment_epochs, threshold, soc_epoch_start,
                   pop_updates, res_rounds>>
    /\ UNCHANGED popvars
    /\ UNCHANGED resvars
    /\ UNCHANGED schedvars
    /\ UNCHANGED cellvars
    /\ UNCHANGED topovars

\* Experiment.update, line 218: every Resource is updated (here there is none)
Experiment_update_resources ==
    /\ exp_pc = "resources"
    /\ res_rounds' = res_rounds + 1
    /\ exp_pc' = "population"
    /\ UNCHANGED <<epoch, proceed, experiment_epochs, threshold, soc_epoch_start,
                   end_epoch, pop_updates, last_soc>>
    /\ UNCHANGED popvars
    /\ UNCHANGED resvars
    /\ UNCHANGED schedvars
    /\ UNCHANGED cellvars
    /\ UNCHANGED topovars

\* Experiment.update, lines 220-225, once population.update has returned
Experiment_update_finish ==
    /\ exp_pc = "in_population"
    /\ pc = "idle"
    /\ epoch' = epoch + 1
    /\ proceed' = proceed_after_update(proceed, epoch + 1, experiment_epochs)
    /\ exp_pc' = "idle"
    /\ UNCHANGED <<experiment_epochs, threshold, soc_epoch_start, end_epoch,
                   pop_updates, res_rounds, last_soc>>
    /\ UNCHANGED popvars
    /\ UNCHANGED resvars
    /\ UNCHANGED schedvars
    /\ UNCHANGED cellvars
    /\ UNCHANGED topovars

NextExp ==
    \/ Experiment_next_stop
    \/ Experiment_update_actions
    \/ Experiment_update_resources
    \/ Population_update
    \/ RPSCell_update
    \/ Kerr07Cell_update
    \/ GameOfLifeCell_update
    \/ Population_update_return
    \/ Experiment_update_finish

\* An Experiment iterated until it stops
SpecExp == InitExp /\ [][NextExp]_vars

----------------------------------------------------------------------------
(* Reading the aggregates *)

\* A brute-force scan of the population: the nodes whose cell has type t
count_of_type(t) == Cardinality({n \in nodes : ctype[n] = t})

\* type_count[t] exists (no IndexError)
has_type_count(t) == t < Len(data.type_count)

type_count_at(t) == data.type_count[t + 1]

RECURSIVE SumSeq(_)
SumSeq(s) == IF s = << >> THEN 0 ELSE Head(s) + SumSeq(Tail(s))

\* transitions[f][t] exists (no IndexError)
has_transition(tr, f, t) == f < Len(tr) /\ t < Len(tr[f + 1])

transition_at(tr, f, t) == tr[f + 1][t + 1]

RECURSIVE SumRows(_)
SumRows(tr) == IF tr = << >> THEN 0 ELSE SumSeq(Head(tr)) + SumRows(Tail(tr))

RECURSIVE SumDiagonal(_, _)
SumDiagonal(tr, i) ==
    IF i > Len(tr) THEN 0
    ELSE (IF i <= Len(tr[i]) THEN tr[i][i] ELSE 0) + SumDiagonal(tr, i + 1)

SumOffDiagonal(tr) == SumRows(tr) - SumDiagonal(tr, 1)

\* The cells whose type differs from their type when the current update began
changed_cells == {n \in nodes : ctype[n] # epoch_start[n]}

\* Population.update has returned
update_returned == pc = "idle" /\ ran

\* The number of cell updates the current Population.update is to make
expected_events ==
    IF user_events = << >> THEN nodes_at_start ELSE user_events[1]

----------------------------------------------------------------------------
(* C1 *)

----------------------------------------------------------------------------
(* C2 *)

(* C2: sum(type_count) equals the number of nodes of the topology in every  *)
(* reachable state, also after Population.remove_cell.                      *)
C2_SumEqualsNodeCount == SumSeq(data.type_count) = Cardinality(nodes)

----------------------------------------------------------------------------
(* C3 *)

(* C3: whenever an entry transitions[f][t] is incremented, f # t and a cell *)
(* has changed from type f to type t in that step; an update that leaves    *)
(* the type unchanged adds nothing to the matrix.                           *)
C3_IncrementsAreTypeChanges ==
    [][\A f, t \in TypesOf(cell_class) :
          ( /\ has_transition(data.transitions, f, t)
            /\ has_transition(data'.transitions, f, t)
            /\ transition_at(data'.transitions, f, t)
                   > transition_at(data.transitions, f, t) )
          => ( /\ f # t
               /\ \E n \in nodes : ctype[n] = f /\ ctype'[n] = t )]_vars

----------------------------------------------------------------------------
(* C4 *)

----------------------------------------------------------------------------
(* C5 *)

(* C5, as stated: transitions[f][t] is 0 for every pair of types right      *)
(* after construction and at the start of every update, before any cell is  *)
(* updated.                                                                 *)
C5_ZeroForEveryPair ==
    (~ran \/ (pc = "updating" /\ updates_done = 0))
        => \A f, t \in TypesOf(cell_class) :
              /\ has_transition(data.transitions, f, t)
              /\ transition_at(data.transitions, f, t) = 0

(* C5, amended: right after construction transitions is the empty list (it  *)
(* has no entry at all); at the start of every update, before any cell is   *)
(* updated, it is a max_types x max_types matrix of zeros, so no count of   *)
(* an earlier epoch carries over.                                           *)
C5_EmptyThenZeroMatrix ==
    /\ ~ran => data.transitions = << >>
    /\ (pc = "updating" /\ updates_done = 0)
          => /\ Len(data.transitions) = max_types(cell_class)
             /\ \A f, t \in 0 .. (max_types(cell_class) - 1) :
                   /\ has_transition(data.transitions, f, t)
                   /\ transition_at(data.transitions, f, t) = 0

\* A new update starts after an update that counted transitions
C5_Witness ==
    /\ pc = "updating"
    /\ updates_done = 0
    /\ samples_left > 0
    /\ prev_changed

----------------------------------------------------------------------------
(* C6 *)

(* C6: one Population.update makes exactly events_per_epoch cell updates;   *)
(* when events_per_epoch is not configured, as many as the topology has     *)
(* nodes at that epoch.                                                     *)
C6_UpdatesPerEpoch ==
    /\ pc = "updating" => updates_done + samples_left = expected_events
    /\ update_returned => updates_done = expected_events

----------------------------------------------------------------------------
(* C7 *)

(* C7: cell updates are applied one at a time, and each reads the cell      *)
(* types as the earlier updates of the same epoch left them: a cell that    *)
(* changes type does so according to the types its neighbors (and itself)   *)
(* have at that moment, not those of the start of the epoch.                *)
C7_UpdatesReadCurrentTypes ==
    [][\A n \in nodes :
          ctype'[n] # ctype[n] =>
             /\ samples_left' = samples_left - 1
             /\ \A m \in nodes \ {n} : ctype'[m] = ctype[m]
             /\ CASE cell_class = "RPSCell" ->
                       \E m \in cneighbors[n] :
                           /\ ctype[m] = ctype'[n]
                           /\ <<ctype[n], ctype[m]>> \in
                                 {<<ROCK, PAPER>>, <<PAPER, SCISSORS>>, <<SCISSORS, ROCK>>}
                  [] cell_class = "Kerr07Cell" ->
                       IF ctype[n] = EMPTY
                       THEN \E m \in cneighbors[n] : ctype[m] = ctype'[n]
                       ELSE ctype'[n] = EMPTY
                  [] cell_class = "GameOfLifeCell" ->
                       LET live == Cardinality({m \in cneighbors[n] : ctype[m] = ALIVE})
                       IN  IF ctype[n] = ALIVE
                           THEN ctype'[n] = DEAD /\ (live < 2 \/ live > 3)
                           ELSE ctype'[n] = ALIVE /\ live = 3]_vars

\* A cell has taken a type that none of its neighbors had when the epoch began
C7_Witness ==
    /\ cell_class = "RPSCell"
    /\ pc = "updating"
    /\ \E n \in nodes :
          /\ ctype[n] # epoch_start[n]
          /\ cneighbors[n] # {}
          /\ \A m \in cneighbors[n] : epoch_start[m] # ctype[n]

----------------------------------------------------------------------------
(* C8 *)

\* The updated cell and all its neighbors
update_neighborhood(c) == {c} \cup res_adj[c]

(* C8 (for a resource whose initial level is not negative): with inflow = 0 *)
(* and decay = 0, a NormalResource update conserves the resource: the sum   *)
(* of the levels of the updated cell and all its neighbors is the same      *)
(* after the update as before it.                                           *)
C8_UpdateConservesResource ==
    (last_update # << >> /\ inflow = Zero /\ decay = Zero /\ ~flt(initial, Zero))
        => LET u == last_update[1] IN
           fsum(level, update_neighborhood(u.cell))
               = fsum(u.before, update_neighborhood(u.cell))

----------------------------------------------------------------------------
(* C9 *)

(* C9 (for a resource whose initial level is not negative): a resource     *)
(* cell update that starts with levels[id] equal to the level of the cell   *)
(* with that id, for every resource cell, ends with them equal again, also  *)
(* for the neighbors whose level the update has changed.                    *)
C9_LevelsMirrorCells ==
    [][(res_updates' = res_updates + 1 /\ levels = level /\ ~flt(initial, Zero))
          => \A c \in DOMAIN level : levels'[c] = level'[c]]_vars

----------------------------------------------------------------------------
(* C10 *)

(* C10: a NormalResource update changes only neighbors whose level is       *)
(* strictly below the updated cell's level after inflow and decay; it       *)
(* serves them in ascending order of level, gives each diffusion x (current *)
(* level of the updated cell - level of the neighbor), and serves no        *)
(* neighbor once the cell's remaining level is not greater than that        *)
(* neighbor's.                                                              *)
C10_TransfersAsSpecified ==
    last_update # << >> =>
        LET u == last_update[1]
            served == {u.log[i].to : i \in DOMAIN u.log}
        IN  /\ \A n \in DOMAIN level \ ({u.cell} \cup served) : level[n] = u.before[n]
            /\ served \subseteq res_adj[u.cell]
            /\ \A i \in DOMAIN u.log :
                  /\ flt(u.before[u.log[i].to], u.self_level)
                  /\ flt(u.log[i].neighbor_level, u.log[i].self_level)
                  /\ u.log[i].xfer = fmul(diffusion, fsub(u.log[i].self_level,
                                                          u.log[i].neighbor_level))
                  /\ level[u.log[i].to] = fadd(u.before[u.log[i].to], u.log[i].xfer)
            /\ \A i, j \in DOMAIN u.log :
                  i < j => ~flt(u.before[u.log[j].to], u.before[u.log[i].to])

----------------------------------------------------------------------------
(* C11 *)

(* C11: for every configuration the NormalResource constructor accepts, the *)
(* level of every NormalResource cell is at least 0 in every reachable      *)
(* state, from construction on.                                             *)
C11_LevelNeverNegative ==
    \A c \in DOMAIN level : ~flt(level[c], Zero)

----------------------------------------------------------------------------
(* C12 *)

----------------------------------------------------------------------------
(* C13 *)

(* C13: with an epoch budget N >= 0 configured (and no action ending the    *)
(* run early), the iteration of a set-up Experiment stops after exactly N   *)
(* epoch updates, the epoch counter having risen by 1 per update from 0 to  *)
(* N.                                                                       *)
C13_StopsAfterBudget ==
    /\ (experiment_epochs >= 0 /\ end_epoch = -1 /\ exp_pc = "stopped")
          => (epoch = experiment_epochs /\ pop_updates = experiment_epochs)
    /\ (exp_pc \in {"idle", "stopped"}) => epoch = pop_updates

----------------------------------------------------------------------------
(* C14 *)

(* C14: when Experiment.end() is called while epoch e is being processed    *)
(* (here by the StopOnConvergence action), the resource and population      *)
(* updates of epoch e are still made and the epoch counter advances to      *)
(* e + 1 before the iteration stops, and no update of a later epoch is      *)
(* executed.                                                                *)
C14_EndTakesEffectBetweenEpochs ==
    end_epoch # -1 =>
        /\ epoch <= end_epoch + 1
        /\ res_rounds <= end_epoch + 1
        /\ pop_updates <= end_epoch + 1
        /\ exp_pc \in {"resources", "population", "in_population"} => epoch = end_epoch
        /\ exp_pc \in {"idle", "stopped"}
              => /\ epoch = end_epoch + 1
                 /\ res_rounds = end_epoch + 1
                 /\ pop_updates = end_epoch + 1
                 /\ pc = "idle"

\* The action has ended a run without epoch budget during its second epoch,
\* and the iteration has stopped
C14_Witness ==
    /\ exp_pc = "stopped"
    /\ experiment_epochs = -1
    /\ end_epoch = 1
    /\ epoch = 2
    /\ pop_updates = 2

----------------------------------------------------------------------------
(* C15 *)

(* C15: whenever StopOnConvergence executes, it ends the experiment         *)
(* (proceed becomes false) if the number of cell types with a nonzero       *)
(* type_count is at or below the configured threshold, and does not end it  *)
(* if that number is above the threshold.                                   *)
C15_EndsAtOrBelowThreshold ==
    last_soc # << >> =>
        (last_soc[1].ended <=> last_soc[1].active <= threshold[1])

----------------------------------------------------------------------------
(* C16 *)

\* A cell update has been made in this step
cell_updated == updates_done' = updates_done + 1

\* Type `winner` replaces type `loser`: Paper replaces Rock, Scissors replaces
\* Paper, Rock replaces Scissors
replaces(winner, loser) ==
    <<loser, winner>> \in {<<ROCK, PAPER>>, <<PAPER, SCISSORS>>, <<SCISSORS, ROCK>>}

(* C16: an RPSCell update changes only the updated cell: for the updated    *)
(* cell n and the competitor chosen among its neighbors, the type of n      *)
(* becomes the competitor's type exactly when the competitor's type         *)
(* replaces it (Paper replaces Rock, Scissors replaces Paper, Rock replaces *)
(* Scissors); otherwise, and when n has no neighbor, no type changes.       *)
C16_RPSUpdateRule ==
    [][(cell_class = "RPSCell" /\ cell_updated) =>
          \E n \in nodes :
             IF cneighbors[n] = {}
             THEN ctype' = ctype
             ELSE \E competitor \in cneighbors[n] :
                     ctype' = [ctype EXCEPT ![n] =
                                  IF replaces(ctype[competitor], ctype[n])
                                  THEN ctype[competitor] ELSE ctype[n]]]_vars

\* A Scissors cell has just been replaced by Rock next to a Paper neighbor
C16_Witness ==
    /\ cell_class = "RPSCell"
    /\ pc = "updating"
    /\ updates_done > 0
    /\ \E n \in nodes :
          /\ epoch_start[n] = SCISSORS
          /\ ctype[n] = ROCK
          /\ \E m \in cneighbors[n] : ctype[m] = PAPER

----------------------------------------------------------------------------
(* C17 *)

(* C17: a Kerr07Cell update that completes changes only the updated cell:   *)
(* an EMPTY cell takes the type one of its neighbors has at that moment,    *)
(* and a Sensitive, Resistant or Producer cell keeps its type or becomes    *)
(* EMPTY; no cell changes from one non-empty type to another.               *)
C17_Kerr07UpdateRule ==
    [][(cell_class = "Kerr07Cell" /\ cell_updated) =>
          /\ \E n \in nodes :
                IF ctype[n] = EMPTY
                THEN \E parent \in cneighbors[n] :
                        ctype' = [ctype EXCEPT ![n] = ctype[parent]]
                ELSE \/ ctype' = ctype
                     \/ ctype' = [ctype EXCEPT ![n] = EMPTY]
          /\ \A m \in nodes :
                (ctype[m] # EMPTY /\ ctype'[m] # EMPTY) => ctype'[m] = ctype[m]]_vars

\* In one epoch an EMPTY cell has taken the type of a neighbor and another
\* cell has died
C17_Witness ==
    /\ cell_class = "Kerr07Cell"
    /\ pc = "updating"
    /\ updates_done = 2
    /\ \E n \in nodes : \E m \in nodes \ {n} :
          /\ epoch_start[n] = EMPTY /\ ctype[n] # EMPTY
          /\ epoch_start[m] # EMPTY /\ ctype[m] = EMPTY


(***************************************************************************)
(* MooreTopology: a size x size lattice whose nodes are numbered row by    *)
(* row; a node is adjacent to the nodes within radius rows and columns,    *)
(* wrapping around the boundary when the lattice is periodic.              *)
(***************************************************************************)

row(size, nodeid) == nodeid \div size

column(size, nodeid) == nodeid % size

node_id(size, r, col) == r * size + col

\* MooreTopology.moore_2d_graph(size, size, radius, periodic): the edges are
\* undirected and a node is never adjacent to itself.
moore_2d_graph(size, radius, periodic) ==
    LET reaches(n, m) ==
            \E r \in (row(size, n) - radius) .. (row(size, n) + radius) :
            \E c \in (column(size, n) - radius) .. (column(size, n) + radius) :
                /\ periodic \/ (r >= 0 /\ r < size)
                /\ periodic \/ (c >= 0 /\ c < size)
                /\ node_id(size, r % size, c % size) # n
                /\ m = (r % size) * size + (c % size)
    IN  [n \in 0 .. (size * size - 1) |->
            {m \in 0 .. (size * size - 1) : reaches(n, m) \/ reaches(m, n)}]

\* The configurations MooreTopology.__init__ accepts
MooreTopology_accepts(size, radius) == size >= 1 /\ radius >= 0 /\ radius < size

\* The lattices of the Game of Life runs: 3 x 3, radius 1, with and without
\* periodic boundaries (periodic defaults to False)
LifeLattices ==
    {cfg \in [size : {3}, radius : {1}, periodic : BOOLEAN] :
        MooreTopology_accepts(cfg.size, cfg.radius)}

\* Every assignment of ALIVE and DEAD to the cells of the lattice
any_pattern(size) == [0 .. (size * size - 1) -> {ALIVE, DEAD}]

\* A GameOfLifeCell population on a Moore lattice, every cell ALIVE or DEAD
InitLattice(lattices, event_configs) ==
    /\ cell_class = "GameOfLifeCell"
    /\ \E cfg \in lattices :
          LET n == cfg.size * cfg.size IN
          /\ nodes = 0 .. (n - 1)
          /\ adj = moore_2d_graph(cfg.size, cfg.radius, cfg.periodic)
          /\ ctype \in any_pattern(cfg.size)
          /\ cell_id = [c \in 0 .. (n - 1) |-> c]
          /\ cell_id_manager = n
          /\ data = [type_count |-> construct_type_count(ctype, n),
                     transitions |-> << >>]
          /\ nodes_at_start = n
    /\ cneighbors = adj
    /\ events_per_epoch \in event_configs
    /\ user_events = events_per_epoch
    /\ samples_left = 0
    /\ pc = "idle"
    /\ epoch_start = ctype
    /\ updates_done = 0
    /\ type_changes = 0
    /\ ran = FALSE
    /\ prev_changed = FALSE

\* Game of Life on a lattice, one cell updated per epoch (events_per_epoch = 1)
InitLife ==
    /\ no_cells
    /\ no_resources
    /\ no_topology
    /\ no_experiment
    /\ InitLattice(LifeLattices, {<<1>>})

NextLife ==
    \/ Population_update
    \/ GameOfLifeCell_update
    \/ Population_update_return

SpecLife == InitLife /\ [][NextLife]_vars

\* The number of ALIVE cells among the cells adjacent to node n
live_around(n) == Cardinality({m \in cneighbors[n] : ctype[m] = ALIVE})

\* C18: an update of a GameOfLifeCell with at least one neighbor leaves the
\* cell ALIVE when it is ALIVE with 2 or 3 ALIVE neighbors, makes it DEAD when
\* it is ALIVE with fewer than 2 or more than 3 ALIVE neighbors, makes it ALIVE
\* when it is DEAD with exactly 3 ALIVE neighbors, and leaves it DEAD
\* otherwise; no other cell changes.
C18_GameOfLifeUpdateRule ==
    [][(cell_class = "GameOfLifeCell" /\ cell_updated) =>
          \E n \in nodes :
              /\ cneighbors[n] # {}
              /\ ctype'[n] =
                    IF ctype[n] = ALIVE
                    THEN (IF live_around(n) \in {2, 3} THEN ALIVE ELSE DEAD)
                    ELSE (IF live_around(n) = 3 THEN ALIVE ELSE DEAD)
              /\ \A m \in nodes \ {n} : ctype'[m] = ctype[m]
      ]_vars

\* C18 witness: an epoch of one update in which an ALIVE cell with more than 3
\* ALIVE neighbors died
C18_Witness ==
    /\ cell_class = "GameOfLifeCell"
    /\ update_returned /\ updates_done = 1
    /\ \E n \in nodes :
          /\ changed_cells = {n}
          /\ epoch_start[n] = ALIVE /\ ctype[n] = DEAD
          /\ live_around(n) > 3
    /\ has_transition(data.transitions, ALIVE, DEAD)
    /\ transition_at(data.transitions, ALIVE, DEAD) = 1


\* C19: updating a cell that has no neighbors never raises: the update is
\* skipped, so the cell keeps its type, and in a population where no cell has
\* a neighbor type_count and transitions stay as they were.
C19_ZeroNeighborUpdateSkipped ==
    [][pc = "updating" =>
          /\ pc' # "crashed"
          /\ \A n \in nodes : cneighbors[n] = {} => ctype'[n] = ctype[n]
          /\ (\A n \in nodes : cneighbors[n] = {}) => data' = data
      ]_vars


(***************************************************************************)
(* The blinker run: GameOfLifeCells on the periodic 3 x 3 Moore lattice of *)
(* radius 1, one full row ALIVE, driven by the Experiment for MaxEpochs    *)
(* epochs, the sampled sequence of each epoch visiting every node once.    *)
(***************************************************************************)

BlinkerLattices == {cfg \in LifeLattices : cfg.periodic}

\* One full row ALIVE, every other cell DEAD
blinker(size) ==
    {[n \in 0 .. (size * size - 1) |->
          IF row(size, n) = r THEN ALIVE ELSE DEAD] : r \in 0 .. (size - 1)}

InitBlinker ==
    /\ no_cells
    /\ no_resources
    /\ no_topology
    /\ InitLattice(BlinkerLattices, {<< >>})
    /\ \E cfg \in BlinkerLattices : ctype \in blinker(cfg.size)
    /\ visited = {}
    /\ seed = ctype
    /\ epoch = 0
    /\ proceed = TRUE
    /\ experiment_epochs = MaxEpochs
    /\ exp_pc = "idle"
    /\ threshold = << >>
    /\ soc_epoch_start = 0
    /\ end_epoch = -1
    /\ pop_updates = 0
    /\ res_rounds = 0
    /\ last_soc = << >>

\* One iteration of the loop of Population.update over a sample in which no
\* node occurs twice: with one event per node, every cell is updated once
GameOfLifeCell_update_exhaustive ==
    /\ pc = "updating" /\ samples_left > 0
    /\ cell_class = "GameOfLifeCell"
    /\ LET sampled == IF updates_done = 0 THEN {} ELSE visited IN
       \E n \in sample_with_replacement_item(nodes) \ sampled :
           /\ GameOfLifeCell_update_node(n)
           /\ visited' = sampled \cup {n}
    /\ next_sample
    /\ UNCHANGED <<cell_class, nodes, adj, cneighbors, cell_id, cell_id_manager,
                   events_per_epoch, user_events, nodes_at_start, epoch_start, ran, prev_changed>>
    /\ UNCHANGED seed
    /\ UNCHANGED cellvars
    /\ UNCHANGED topovars
    /\ UNCHANGED resvars
    /\ UNCHANGED expvars

NextBlinker ==
    \/ Experiment_next_stop
    \/ Experiment_update_actions
    \/ Experiment_update_resources
    \/ Population_update
    \/ GameOfLifeCell_update_exhaustive
    \/ Population_update_return
    \/ Experiment_update_finish

SpecBlinker == InitBlinker /\ [][NextBlinker]_vars

\* The nodes whose cell is ALIVE
alive_cells(types) == {n \in DOMAIN types : types[n] = ALIVE}

\* C20, as stated: after 2 epochs of the blinker run the configuration is back
\* to the initial pattern.
C20_BlinkerBackAfterTwoEpochs ==
    (epoch = 2 /\ exp_pc \in {"idle", "stopped"}) => ctype = seed

\* C20, amended: in the blinker run the seeded row stays ALIVE, the first DEAD
\* cell updated becomes ALIVE and no other cell ever does; once the first epoch
\* is over the configuration is the seeded row plus that one cell, and no
\* update of a later epoch changes it.
C20_BlinkerFreezesWithFourAlive ==
    /\ alive_cells(seed) \subseteq alive_cells(ctype)
    /\ Cardinality(alive_cells(ctype)) \in {3, 4}
    /\ (pc = "updating" /\ epoch = 0 /\ visited \ alive_cells(seed) # {}) =>
          Cardinality(alive_cells(ctype)) = 4
    /\ epoch >= 1 => Cardinality(alive_cells(ctype)) = 4
    /\ (epoch >= 1 /\ exp_pc = "in_population") => ctype = epoch_start

\* C20 witness: two epochs of the blinker run are over and the configuration is
\* not the seeded pattern
C20_Witness ==
    /\ epoch = 2 /\ exp_pc = "idle" /\ pop_updates = 2
    /\ seed # << >>
    /\ ctype # seed
    /\ Cardinality(alive_cells(ctype)) = 4


(***************************************************************************)
(* Construction of the Cells of a Population, one Cell per node in node    *)
(* order, each constructor called with or without a type.                  *)
(***************************************************************************)

\* The type argument of a Cell constructor: << >> for None, <<t>> for the integer t
TypeArguments(cls) == {<< >>} \cup {<<t>> : t \in (-1) .. num_types(cls)}

\* `if type:` -- None and 0 are both false
type_is_true(type) == type # << >> /\ type[1] # 0

\* Cell.__init__ raises CellTypeError
Cell_init_raises(cls, type) == type_is_true(type) /\ type[1] \notin TypesOf(cls)

\* Cell.__init__: the values self.type can take
Cell_init_type(cls, type) ==
    IF type_is_true(type) THEN {type[1]} ELSE TypesOf(cls)

\* A Population whose topology is built and whose Cells are still to be made
InitCell ==
    /\ no_cells
    /\ no_resources
    /\ no_topology
    /\ visited = {}
    /\ seed = << >>
    /\ epoch = 0
    /\ proceed = TRUE
    /\ experiment_epochs = -1
    /\ exp_pc = "none"
    /\ threshold = << >>
    /\ soc_epoch_start = 0
    /\ end_epoch = -1
    /\ pop_updates = 0
    /\ res_rounds = 0
    /\ last_soc = << >>
    /\ cell_class \in CellClasses
    /\ \E n \in 1 .. MaxNodes :
          /\ nodes = 0 .. (n - 1)
          /\ adj \in Graphs(n)
          /\ nodes_at_start = n
    /\ ctype = << >>
    /\ cell_id = << >>
    /\ cneighbors = << >>
    /\ cell_id_manager = 0
    /\ data = [type_count |-> << >>, transitions |-> << >>]
    /\ events_per_epoch = << >>
    /\ user_events = << >>
    /\ samples_left = 0
    /\ pc = "constructing"
    /\ epoch_start = << >>
    /\ updates_done = 0
    /\ type_changes = 0
    /\ ran = FALSE
    /\ prev_changed = FALSE

\* The constructor of the configured Cell class for the next node: Cell.__init__
\* takes the next id and sets the type, then the subclass counts the type
Cell_init ==
    /\ pc = "constructing"
    /\ cell_id_manager < nodes_at_start
    /\ LET node == cell_id_manager IN
       \E type \in TypeArguments(cell_class) :
           /\ cell_id_manager' = get_cell_id_next(cell_id_manager)
           /\ IF Cell_init_raises(cell_class, type)
              THEN /\ call' = [node |-> node, type |-> type, raised |-> TRUE]
                   /\ pc' = "crashed"
                   /\ UNCHANGED <<ctype, cell_id, data, epoch_start>>
              ELSE \E t \in Cell_init_type(cell_class, type) :
                   /\ call' = [node |-> node, type |-> type, raised |-> FALSE]
                   /\ ctype' = [m \in 0 .. node |-> IF m = node THEN t ELSE ctype[m]]
                   /\ cell_id' = [m \in 0 .. node |-> m]
                   /\ data' = [data EXCEPT
                                  !.type_count = increment_type_count(@, t)]
                   /\ epoch_start' = ctype'
                   /\ pc' = pc
    /\ UNCHANGED <<cell_class, nodes, adj, cneighbors, events_per_epoch,
                   samples_left, user_events, nodes_at_start, updates_done,
                   type_changes, ran, prev_changed>>
    /\ UNCHANGED topology
    /\ UNCHANGED resvars
    /\ UNCHANGED schedvars
    /\ UNCHANGED cellvars
    /\ UNCHANGED expvars

\* The end of Population.__init__: every Cell sets its neighbors list
Population_init_update_neighbors ==
    /\ pc = "constructing"
    /\ cell_id_manager = nodes_at_start
    /\ cneighbors' = adj
    /\ pc' = "idle"
    /\ UNCHANGED <<cell_class, nodes, adj, ctype, cell_id, cell_id_manager, data,
                   events_per_epoch, samples_left, user_events, nodes_at_start,
                   epoch_start, updates_done, type_changes, ran, prev_changed>>
    /\ UNCHANGED resvars
    /\ UNCHANGED schedvars
    /\ UNCHANGED cellvars
    /\ UNCHANGED topovars
    /\ UNCHANGED expvars

NextCell ==
    \/ Cell_init
    \/ Population_init_update_neighbors

SpecCell == InitCell /\ [][NextCell]_vars

\* C21: a Cell constructed with the valid type t given has type t (and the
\* constructor does not raise); the type is drawn only when none is given.
C21_ExplicitTypeIsKept ==
    (call # << >> /\ call.type # << >> /\ call.type[1] \in TypesOf(cell_class)) =>
        /\ ~call.raised
        /\ call.node \in DOMAIN ctype
        /\ ctype[call.node] = call.type[1]


(***************************************************************************)
(* A Population of RPSCells on a WellMixedTopology: the graph has no       *)
(* edges, and get_neighbors(node) returns a random sample of               *)
(* num_interactions nodes.                                                 *)
(***************************************************************************)

MaxMixedNodes == 2

\* The configurations WellMixedTopology.__init__ accepts
WellMixedTopology_accepts(size, num_interactions) ==
    size >= 1 /\ num_interactions >= 0 /\ num_interactions <= size

\* WellMixedTopology.get_neighbors(node): the samples random.sample can return
WellMixedTopology_get_neighbors(node) ==
    {S \in SUBSET (0 .. (topology.size - 1)) :
        Cardinality(S) = topology.num_interactions}

\* The Population once the Cells are made and before their neighbors lists are set
InitMixed ==
    /\ no_cells
    /\ no_resources
    /\ no_experiment
    /\ cell_class = "RPSCell"
    /\ \E n \in 1 .. MaxMixedNodes :
       \E k \in 0 .. n :
          /\ WellMixedTopology_accepts(n, k)
          /\ topology = [size |-> n, num_interactions |-> k]
          /\ nodes = 0 .. (n - 1)
          /\ adj = edge_graph(n, {})
          /\ ctype \in [0 .. (n - 1) -> TypesOf(cell_class)]
          /\ cell_id = [c \in 0 .. (n - 1) |-> c]
          /\ cell_id_manager = n
          /\ data = [type_count |-> construct_type_count(ctype, n),
                     transitions |-> << >>]
          /\ nodes_at_start = n
    /\ call = << >>
    /\ cneighbors = << >>
    /\ events_per_epoch = << >>
    /\ user_events = events_per_epoch
    /\ samples_left = 0
    /\ pc = "constructing"
    /\ epoch_start = ctype
    /\ updates_done = 0
    /\ type_changes = 0
    /\ ran = FALSE
    /\ prev_changed = FALSE

\* Population.__init__, second loop: the Cell of the next node sets its neighbors
\* list from Population.get_neighbors, which asks the topology
Cell_update_neighbors ==
    /\ pc = "constructing"
    /\ LET node == Cardinality(DOMAIN cneighbors) IN
       /\ node < nodes_at_start
       /\ \E S \in WellMixedTopology_get_neighbors(node) :
             /\ cneighbors' = [m \in 0 .. node |-> IF m = node THEN S ELSE cneighbors[m]]
             /\ call' = [node |-> node, returned |-> S,
                         serial |-> IF call = << >> THEN 1 ELSE call.serial + 1]
       /\ pc' = IF node + 1 = nodes_at_start THEN "idle" ELSE pc
    /\ UNCHANGED <<cell_class, nodes, adj, ctype, cell_id, cell_id_manager, data,
                   events_per_epoch, samples_left, user_events, nodes_at_start,
                   epoch_start, updates_done, type_changes, ran, prev_changed>>
    /\ UNCHANGED topology
    /\ UNCHANGED resvars
    /\ UNCHANGED schedvars
    /\ UNCHANGED cellvars
    /\ UNCHANGED expvars

NextMixed ==
    \/ Cell_update_neighbors
    \/ Population_update
    \/ RPSCell_update
    \/ Population_update_return

SpecMixed == InitMixed /\ [][NextMixed]_vars

\* C22: on a well-mixed topology the neighbor set a cell uses in an update is
\* drawn at that update: every cell update comes with a call of the topology's
\* get_neighbors, so that the set is not the one fixed at construction.
C22_NeighborsDrawnAtEachUpdate ==
    [][cell_updated =>
          /\ call' # call
          /\ \E n \in nodes : call'.node = n /\ cneighbors'[n] = call'.returned
      ]_vars


(***************************************************************************)
(* A Population on a mutable topology (the plain Topology class): Cells    *)
(* are connected and disconnected through the Population and through the   *)
(* Cells themselves.                                                       *)
(***************************************************************************)

MaxConnectNodes == 2

InitConnect ==
    /\ no_cells
    /\ no_resources
    /\ no_topology
    /\ no_experiment
    /\ InitPopulation(MaxConnectNodes, {<< >>})
    /\ cell_class = "GameOfLifeCell"

\* Topology.add_edge raises NonExistentNodeError
Topology_add_edge_raises(src, dest) == src \notin nodes \/ dest \notin nodes

\* Topology.add_edge: graph.add_edge(src, dest)
Topology_add_edge(src, dest) ==
    [m \in DOMAIN adj |->
        IF m = src /\ m = dest THEN adj[m] \cup {m}
        ELSE IF m = src THEN adj[m] \cup {dest}
        ELSE IF m = dest THEN adj[m] \cup {src}
        ELSE adj[m]]

\* Topology.remove_edge raises NonExistentEdgeError (graph.remove_edge raised)
Topology_remove_edge_raises(src, dest) ==
    src \notin nodes \/ dest \notin nodes \/ dest \notin adj[src]

\* Topology.remove_edge: graph.remove_edge(src, dest)
Topology_remove_edge(src, dest) ==
    [m \in DOMAIN adj |->
        IF m = src /\ m = dest THEN adj[m] \ {m}
        ELSE IF m = src THEN adj[m] \ {dest}
        ELSE IF m = dest THEN adj[m] \ {src}
        ELSE adj[m]]

\* Population.get_neighbors(cell) on graph g: the Cells on the nodes adjacent
\* to cell.node
Population_get_neighbors(g, cell) == g[cell]

\* Population.connect_cells(src, dest): the error is caught and printed
Population_connect_cells ==
    /\ pc = "idle"
    /\ \E src \in DOMAIN ctype : \E dest \in DOMAIN ctype :
          adj' = IF Topology_add_edge_raises(cell_id[src], cell_id[dest])
                    THEN adj
                    ELSE Topology_add_edge(cell_id[src], cell_id[dest])
    /\ UNCHANGED <<cell_class, nodes, ctype, cneighbors, cell_id, cell_id_manager,
                   data, events_per_epoch, samples_left, pc, user_events,
                   nodes_at_start, epoch_start, updates_done, type_changes,
                   ran, prev_changed>>
    /\ UNCHANGED topovars
    /\ UNCHANGED resvars
    /\ UNCHANGED schedvars
    /\ UNCHANGED cellvars
    /\ UNCHANGED expvars

\* Population.disconnect_cells(src, dest): the error is caught and printed
Population_disconnect_cells ==
    /\ pc = "idle"
    /\ \E src \in DOMAIN ctype : \E dest \in DOMAIN ctype :
          adj' = IF Topology_remove_edge_raises(cell_id[src], cell_id[dest])
                    THEN adj
                    ELSE Topology_remove_edge(cell_id[src], cell_id[dest])
    /\ UNCHANGED <<cell_class, nodes, ctype, cneighbors, cell_id, cell_id_manager,
                   data, events_per_epoch, samples_left, pc, user_events,
                   nodes_at_start, epoch_start, updates_done, type_changes,
                   ran, prev_changed>>
    /\ UNCHANGED topovars
    /\ UNCHANGED resvars
    /\ UNCHANGED schedvars
    /\ UNCHANGED cellvars
    /\ UNCHANGED expvars

\* Cell.add_neighbor(neighbor): the edge is added, then both Cells set their
\* neighbors lists; an error of add_edge is not caught
Cell_add_neighbor ==
    /\ pc = "idle"
    /\ \E self \in DOMAIN ctype : \E neighbor \in DOMAIN ctype :
          IF Topology_add_edge_raises(cell_id[self], cell_id[neighbor])
             THEN /\ pc' = "crashed"
                  /\ UNCHANGED <<adj, cneighbors>>
             ELSE /\ adj' = Topology_add_edge(cell_id[self], cell_id[neighbor])
                  /\ cneighbors' =
                        [m \in DOMAIN cneighbors |->
                            IF m \in {self, neighbor}
                            THEN Population_get_neighbors(adj', m)
                            ELSE cneighbors[m]]
                  /\ pc' = pc
    /\ UNCHANGED <<cell_class, nodes, ctype, cell_id, cell_id_manager,
                   data, events_per_epoch, samples_left, user_events,
                   nodes_at_start, epoch_start, updates_done, type_changes,
                   ran, prev_changed>>
    /\ UNCHANGED topovars
    /\ UNCHANGED resvars
    /\ UNCHANGED schedvars
    /\ UNCHANGED cellvars
    /\ UNCHANGED expvars

\* Cell.remove_neighbor(neighbor): the edge is removed, then both Cells set
\* their neighbors lists; an error of remove_edge is not caught
Cell_remove_neighbor ==
    /\ pc = "idle"
    /\ \E self \in DOMAIN ctype : \E neighbor \in DOMAIN ctype :
          IF Topology_remove_edge_raises(cell_id[self], cell_id[neighbor])
             THEN /\ pc' = "crashed"
                  /\ UNCHANGED <<adj, cneighbors>>
             ELSE /\ adj' = Topology_remove_edge(cell_id[self], cell_id[neighbor])
                  /\ cneighbors' =
                        [m \in DOMAIN cneighbors |->
                            IF m \in {self, neighbor}
                            THEN Population_get_neighbors(adj', m)
                            ELSE cneighbors[m]]
                  /\ pc' = pc
    /\ UNCHANGED <<cell_class, nodes, ctype, cell_id, cell_id_manager,
                   data, events_per_epoch, samples_left, user_events,
                   nodes_at_start, epoch_start, updates_done, type_changes,
                   ran, prev_changed>>
    /\ UNCHANGED topovars
    /\ UNCHANGED resvars
    /\ UNCHANGED schedvars
    /\ UNCHANGED cellvars
    /\ UNCHANGED expvars

NextConnect ==
    \/ Population_connect_cells
    \/ Population_disconnect_cells
    \/ Cell_add_neighbor
    \/ Cell_remove_neighbor

SpecConnect == InitConnect /\ [][NextConnect]_vars

\* C23: after any sequence of connect_cells, disconnect_cells, add_neighbor and
\* remove_neighbor, the cached neighbors list of every cell is the set of the
\* cells on the nodes adjacent to the cell's node.
C23_NeighborsCacheMatchesGraph ==
    \A cell \in DOMAIN ctype : cneighbors[cell] = adj[cell]


(***************************************************************************)
(* Construction of the lattice and well-mixed topologies, and the calls    *)
(* that change a topology's structure.  topology.graph maps every node of  *)
(* the graph to the set of its neighbors.                                  *)
(***************************************************************************)

MaxLatticeSize == 4

\* graph.add_edge(n, m) for every m in S
add_edges(g, n, S) ==
    [m \in DOMAIN g |->
        IF m = n THEN g[m] \cup S
        ELSE IF m \in S THEN g[m] \cup {n}
        ELSE g[m]]

\* nx.empty_graph() with add_nodes_from(range(k))
empty_graph(k) == [n \in 0 .. (k - 1) |-> {}]

\* Faulty variant of moore_2d_neighbors that leaves the diagonals out
\* (sensitivity of C24)
moore_2d_neighbors_no_diagonal(size, radius, periodic, n) ==
    {m \in 0 .. (size * size - 1) :
        \E r \in (row(size, n) - radius) .. (row(size, n) + radius) :
        \E c \in (column(size, n) - radius) .. (column(size, n) + radius) :
            /\ r = row(size, n) \/ c = column(size, n)
            /\ periodic \/ (r >= 0 /\ r < size)
            /\ periodic \/ (c >= 0 /\ c < size)
            /\ node_id(size, r % size, c % size) # n
            /\ m = (r % size) * size + (c % size)}

\* MooreTopology.moore_2d_graph, the body of the loop over the nodes: the
\* nodes that node n is given an edge to
moore_2d_neighbors(size, radius, periodic, n) ==
    {m \in 0 .. (size * size - 1) :
        \E r \in (row(size, n) - radius) .. (row(size, n) + radius) :
        \E c \in (column(size, n) - radius) .. (column(size, n) + radius) :
            /\ periodic \/ (r >= 0 /\ r < size)
            /\ periodic \/ (c >= 0 /\ c < size)
            /\ node_id(size, r % size, c % size) # n
            /\ m = (r % size) * size + (c % size)}

\* nx.grid_graph(dim=[rows, columns], periodic) relabelled row by row: a node is
\* adjacent to the nodes one row or one column away, around the boundary when
\* periodic (a simple graph: no loops, no parallel edges)
grid_graph(size, periodic) ==
    [n \in 0 .. (size * size - 1) |->
        {m \in 0 .. (size * size - 1) :
            /\ m # n
            /\ \E d \in {-1, 1} :
                 \/ /\ column(size, m) = column(size, n)
                    /\ IF periodic
                       THEN row(size, m) = (row(size, n) + d) % size
                       ELSE row(size, m) = row(size, n) + d
                 \/ /\ row(size, m) = row(size, n)
                    /\ IF periodic
                       THEN column(size, m) = (column(size, n) + d) % size
                       ELSE column(size, m) = column(size, n) + d}]

\* VonNeumannTopology.vonneumann_2d_graph, one pass of `for i in range(radius - 1)`:
\* every node n is given an edge to every neighbor in H of every neighbor in H of n
vonneumann_expand(G, H) ==
    [n \in DOMAIN G |-> G[n] \cup UNION {H[neighbor] : neighbor \in H[n]}]

\* The configurations the lattice constructors accept (size >= 1, 0 <= radius < size)
LatticeConfigs(kind) ==
    {[kind |-> kind, size |-> s, radius |-> r, periodic |-> p,
      graph |-> << >>, step |-> 0, state |-> "new"] :
        s \in 1 .. MaxLatticeSize, r \in 0 .. (MaxLatticeSize - 1), p \in BOOLEAN}

WellMixedConfigs ==
    {[kind |-> "WellMixedTopology", size |-> s, num_interactions |-> k,
      graph |-> << >>, step |-> 0, state |-> "new"] :
        s \in 1 .. MaxMixedNodes, k \in 0 .. MaxMixedNodes}

\* A topology plugin about to be constructed from an accepted configuration
InitTopology ==
    /\ no_cells
    /\ no_resources
    /\ no_population
    /\ no_experiment
    /\ call = << >>
    /\ topology \in
          {t \in LatticeConfigs("MooreTopology") \cup LatticeConfigs("VonNeumannTopology") :
              MooreTopology_accepts(t.size, t.radius)}
          \cup {t \in WellMixedConfigs : WellMixedTopology_accepts(t.size, t.num_interactions)}

unchanged_by_topology ==
    /\ UNCHANGED popvars
    /\ UNCHANGED resvars
    /\ UNCHANGED schedvars
    /\ UNCHANGED cellvars
    /\ UNCHANGED expvars

\* MooreTopology.moore_2d_graph: the graph is created with its nodes
MooreTopology_moore_2d_graph ==
    /\ topology # << >> /\ topology.kind = "MooreTopology" /\ topology.state = "new"
    /\ topology' = [topology EXCEPT !.graph = empty_graph(topology.size * topology.size),
                                    !.state = "building"]
    /\ UNCHANGED call
    /\ unchanged_by_topology

\* MooreTopology.moore_2d_graph: one iteration of `for n in G.nodes()`; the
\* graph is returned after the last one
MooreTopology_moore_2d_graph_node ==
    /\ topology # << >> /\ topology.kind = "MooreTopology" /\ topology.state = "building"
    /\ LET n == topology.step
           last == topology.size * topology.size - 1
       IN  topology' = [topology EXCEPT
               !.graph = add_edges(@, n, moore_2d_neighbors(topology.size, topology.radius,
                                                         topology.periodic, n)),
               !.step = @ + 1,
               !.state = IF n = last THEN "built" ELSE "building"]
    /\ UNCHANGED call
    /\ unchanged_by_topology

\* VonNeumannTopology.vonneumann_2d_graph up to the loop: radius 0 calls
\* add_edges_from on an integer, which raises TypeError; otherwise G is a copy
\* of the grid graph H
VonNeumannTopology_vonneumann_2d_graph ==
    /\ topology # << >> /\ topology.kind = "VonNeumannTopology" /\ topology.state = "new"
    /\ topology' =
          IF topology.radius = 0
          THEN [topology EXCEPT !.state = "raised"]
          ELSE [topology EXCEPT !.graph = grid_graph(topology.size, topology.periodic),
                                !.state = IF topology.radius = 1 THEN "built" ELSE "building"]
    /\ UNCHANGED call
    /\ unchanged_by_topology

\* VonNeumannTopology.vonneumann_2d_graph: one iteration of
\* `for i in range(radius - 1)`; the graph is returned after the last one
VonNeumannTopology_vonneumann_2d_graph_pass ==
    /\ topology # << >> /\ topology.kind = "VonNeumannTopology" /\ topology.state = "building"
    /\ LET i == topology.step IN
       topology' = [topology EXCEPT
           !.graph = vonneumann_expand(@, grid_graph(topology.size, topology.periodic)),
           !.step = @ + 1,
           !.state = IF i + 1 = topology.radius - 1 THEN "built" ELSE "building"]
    /\ UNCHANGED call
    /\ unchanged_by_topology

\* WellMixedTopology.__init__: the graph has the nodes 0 .. size-1 and no edges
WellMixedTopology_init ==
    /\ topology # << >> /\ topology.kind = "WellMixedTopology" /\ topology.state = "new"
    /\ topology' = [topology EXCEPT !.graph = empty_graph(topology.size),
                                    !.state = "built"]
    /\ UNCHANGED call
    /\ unchanged_by_topology


\* The topology classes that override the four structure-changing methods to
\* raise ConfigurationError
rejects_add_node(kind) ==
    kind \in {"MooreTopology", "VonNeumannTopology", "CartesianTopology"}

rejects_remove_node(kind) ==
    kind \in {"MooreTopology", "VonNeumannTopology", "CartesianTopology"}

rejects_add_edge(kind) ==
    kind \in {"MooreTopology", "VonNeumannTopology", "CartesianTopology",
              "WellMixedTopology"}

rejects_remove_edge(kind) ==
    kind \in {"MooreTopology", "VonNeumannTopology", "CartesianTopology",
              "WellMixedTopology"}

max_node(g) == CHOOSE n \in DOMAIN g : \A m \in DOMAIN g : m <= n

\* graph.add_node(id): a node that exists is left as it is
graph_add_node(g, id) ==
    [m \in DOMAIN g \cup {id} |-> IF m \in DOMAIN g THEN g[m] ELSE {}]

\* graph.remove_node(id), with the edges of the node
graph_remove_node(g, id) == [m \in DOMAIN g \ {id} |-> g[m] \ {id}]

\* add_node(id) on a built topology.  WellMixedTopology.add_node adds the node
\* max + 1 when id is -1 (and then looks up the node -1: KeyError), the node id
\* otherwise.
Topology_add_node ==
    /\ topology # << >> /\ topology.state = "built"
    /\ \E id \in (-1) .. MaxMixedNodes :
          IF rejects_add_node(topology.kind)
          THEN /\ call' = [op |-> "add_node", raised |-> "ConfigurationError",
                           graph |-> topology.graph]
               /\ UNCHANGED topology
          ELSE IF id = -1 /\ DOMAIN topology.graph = {}
          THEN /\ call' = [op |-> "add_node", raised |-> "ValueError",
                           graph |-> topology.graph]
               /\ UNCHANGED topology
          ELSE IF id = -1
          THEN /\ max_node(topology.graph) < MaxMixedNodes
               /\ call' = [op |-> "add_node", raised |-> "KeyError",
                           graph |-> topology.graph]
               /\ topology' = [topology EXCEPT
                                  !.graph = graph_add_node(@, max_node(@) + 1)]
          ELSE /\ call' = [op |-> "add_node", raised |-> "none",
                           graph |-> topology.graph]
               /\ topology' = [topology EXCEPT !.graph = graph_add_node(@, id)]
    /\ unchanged_by_topology

\* remove_node(id) on a built topology.  WellMixedTopology inherits
\* Topology.remove_node.
Topology_remove_node_call ==
    /\ topology # << >> /\ topology.state = "built"
    /\ \E id \in 0 .. MaxMixedNodes :
          IF rejects_remove_node(topology.kind)
          THEN /\ call' = [op |-> "remove_node", raised |-> "ConfigurationError",
                           graph |-> topology.graph]
               /\ UNCHANGED topology
          ELSE IF id \notin DOMAIN topology.graph
          THEN /\ call' = [op |-> "remove_node", raised |-> "NonExistentNodeError",
                           graph |-> topology.graph]
               /\ UNCHANGED topology
          ELSE /\ call' = [op |-> "remove_node", raised |-> "none",
                           graph |-> topology.graph]
               /\ topology' = [topology EXCEPT !.graph = graph_remove_node(@, id)]
    /\ unchanged_by_topology

\* add_edge(src, dest) on a built topology
Topology_add_edge_call ==
    /\ topology # << >> /\ topology.state = "built"
    /\ rejects_add_edge(topology.kind)
    /\ call' = [op |-> "add_edge", raised |-> "ConfigurationError",
                graph |-> topology.graph]
    /\ UNCHANGED topology
    /\ unchanged_by_topology

\* remove_edge(src, dest) on a built topology
Topology_remove_edge_call ==
    /\ topology # << >> /\ topology.state = "built"
    /\ rejects_remove_edge(topology.kind)
    /\ call' = [op |-> "remove_edge", raised |-> "ConfigurationError",
                graph |-> topology.graph]
    /\ UNCHANGED topology
    /\ unchanged_by_topology

NextTopology ==
    \/ MooreTopology_moore_2d_graph
    \/ MooreTopology_moore_2d_graph_node
    \/ VonNeumannTopology_vonneumann_2d_graph
    \/ VonNeumannTopology_vonneumann_2d_graph_pass
    \/ WellMixedTopology_init
    \/ Topology_add_node
    \/ Topology_remove_node_call
    \/ Topology_add_edge_call
    \/ Topology_remove_edge_call

SpecTopology == InitTopology /\ [][NextTopology]_vars

\* A built MooreTopology of radius 1
moore_radius_1 ==
    /\ topology # << >>
    /\ topology.kind = "MooreTopology" /\ topology.state = "built"
    /\ topology.radius = 1

\* The number of neighbors of node n
degree(n) == Cardinality(topology.graph[n])

on_border(size, k) == k = 0 \/ k = size - 1

is_corner(size, n) == on_border(size, row(size, n)) /\ on_border(size, column(size, n))

is_interior(size, n) == ~on_border(size, row(size, n)) /\ ~on_border(size, column(size, n))

\* C24, as stated: a MooreTopology of radius 1 gives, when it is not periodic,
\* 3 neighbors to a corner node, 5 to any other border node and 8 to an interior
\* node, and, when it is periodic, 8 neighbors to every node.
C24_MooreNeighborCounts ==
    moore_radius_1 =>
        \A n \in DOMAIN topology.graph :
            degree(n) = IF topology.periodic THEN 8
                        ELSE IF is_corner(topology.size, n) THEN 3
                        ELSE IF is_interior(topology.size, n) THEN 8
                        ELSE 5

\* C24, amended: the counts are 3, 5 and 8 when the lattice is not periodic;
\* when it is periodic every node has 8 neighbors if size >= 3, and its 3
\* fellow nodes if size = 2.  No node is its own neighbor.
C24_MooreNeighborCountsFromSize3 ==
    moore_radius_1 =>
        \A n \in DOMAIN topology.graph :
            /\ n \notin topology.graph[n]
            /\ degree(n) = IF topology.periodic
                           THEN (IF topology.size >= 3 THEN 8 ELSE 3)
                           ELSE IF is_corner(topology.size, n) THEN 3
                           ELSE IF is_interior(topology.size, n) THEN 8
                           ELSE 5

\* C24 witness: two built lattices of radius 1 and size 3 or more, one periodic
\* and one not, the latter with corner, border and interior nodes -- the witness
\* is the non-periodic one, whose interior node has 8 neighbors
C24_Witness ==
    /\ moore_radius_1
    /\ topology.size >= 3
    /\ ~topology.periodic
    /\ \E n \in DOMAIN topology.graph : is_interior(topology.size, n) /\ degree(n) = 8
    /\ \E n \in DOMAIN topology.graph : is_corner(topology.size, n) /\ degree(n) = 3
    /\ \E n \in DOMAIN topology.graph :
          ~is_corner(topology.size, n) /\ ~is_interior(topology.size, n) /\ degree(n) = 5


abs(x) == IF x < 0 THEN -x ELSE x

\* The distance between the indices a and b of a row or column of the lattice
lattice_gap(size, periodic, a, b) ==
    IF periodic /\ size - abs(a - b) < abs(a - b) THEN size - abs(a - b) ELSE abs(a - b)

\* The Manhattan distance between the nodes n and m of the lattice
lattice_manhattan(size, periodic, n, m) ==
    lattice_gap(size, periodic, row(size, n), row(size, m))
        + lattice_gap(size, periodic, column(size, n), column(size, m))

\* C25: for every accepted radius r >= 1 the neighbors of a node of a
\* VonNeumannTopology are exactly the other nodes within Manhattan distance r
\* (around the boundary when periodic); no node is its own neighbor, and
\* construction does not fail.
C25_VonNeumannNeighborsWithinRadius ==
    (/\ topology # << >>
     /\ topology.kind = "VonNeumannTopology"
     /\ topology.radius >= 1
     /\ topology.state \in {"built", "raised"}) =>
        /\ topology.state = "built"
        /\ \A n \in DOMAIN topology.graph :
              topology.graph[n] =
                  {m \in DOMAIN topology.graph :
                      /\ m # n
                      /\ lattice_manhattan(topology.size, topology.periodic, n, m)
                             <= topology.radius}


\* C26: on a MooreTopology, VonNeumannTopology, CartesianTopology or
\* WellMixedTopology each of add_node, remove_node, add_edge and remove_edge
\* raises a configuration error and leaves the node set and the edge set as
\* they were before the call.
C26_StructureChangesRejected ==
    (call # << >> /\ topology # << >>) =>
        /\ call.raised = "ConfigurationError"
        /\ topology.graph = call.graph


(***************************************************************************)
(* seeds.utils.geometry.  A coordinate is a multiple k / unit of a fixed    *)
(* fraction of the unit interval and is written as the integer k; a p-th   *)
(* power of a distance is then an integer multiple of 1 / unit^p.          *)
(***************************************************************************)

GridSteps == 2

\* The points of the unit square whose coordinates are multiples of 1 / unit
UnitSquare(unit) == {<<x, y>> : x \in 0 .. unit, y \in 0 .. unit}

power(x, p) == IF p = 1 THEN x ELSE x * x

min(x, y) == IF x < y THEN x ELSE y

\* minkowski_distance_p, the term one dimension adds to dist
minkowski_term(a, b, p, periodic, unit) ==
    IF periodic
    THEN LET d == abs(a - b)
             d_periodic == abs(unit - d)
         IN  power(min(d, d_periodic), p)
    ELSE power(a - b, p)

\* minkowski_distance_p(point1, point2, p, periodic) for points of two dimensions
minkowski_distance_p(point1, point2, p, periodic, unit) ==
    minkowski_term(point1[1], point2[1], p, periodic, unit)
        + minkowski_term(point1[2], point2[2], p, periodic, unit)

\* minkowski_distance: the (1.0 / p)-th power of minkowski_distance_p, written
\* <<p, d>> for the p-th root of d (the root of order 1 is d itself, and equal
\* arguments give equal roots)
minkowski_distance(point1, point2, p, periodic, unit) ==
    <<p, minkowski_distance_p(point1, point2, p, periodic, unit)>>

euclidean_distance(p1, p2, periodic, unit) ==
    minkowski_distance(p1, p2, 2, periodic, unit)

manhattan_distance(p1, p2, periodic, unit) ==
    minkowski_distance(p1, p2, 1, periodic, unit)

\* Two points and a distance function about to be called on them
InitGeometry ==
    /\ no_cells
    /\ no_resources
    /\ no_population
    /\ no_experiment
    /\ topology = << >>
    /\ call \in [fn : {"manhattan_distance", "euclidean_distance"},
                 p1 : UnitSquare(GridSteps), p2 : UnitSquare(GridSteps),
                 periodic : BOOLEAN, returned : {<< >>}]

\* manhattan_distance(p1, p2, periodic) or euclidean_distance(p1, p2, periodic)
geometry_distance ==
    /\ call # << >> /\ topology = << >>
    /\ "returned" \in DOMAIN call /\ call.returned = << >>
    /\ call' = [call EXCEPT !.returned =
                   IF call.fn = "manhattan_distance"
                   THEN manhattan_distance(call.p1, call.p2, call.periodic, GridSteps)
                   ELSE euclidean_distance(call.p1, call.p2, call.periodic, GridSteps)]
    /\ UNCHANGED topology
    /\ unchanged_by_topology

NextGeometry == geometry_distance

SpecGeometry == InitGeometry /\ [][NextGeometry]_vars

\* C30: distance(p, q) = distance(q, p) for all points p and q of the unit
\* square, for the Manhattan and the Euclidean distance, with and without
\* periodic boundaries.
C30_DistanceSymmetric ==
    (call # << >> /\ call.returned # << >>) =>
        call.returned =
            IF call.fn = "manhattan_distance"
            THEN manhattan_distance(call.p2, call.p1, call.periodic, GridSteps)
            ELSE euclidean_distance(call.p2, call.p1, call.periodic, GridSteps)


(***************************************************************************)
(* CartesianTopology: nodes at random points of the unit square, an edge   *)
(* between two nodes nearer than radius.  Coordinates are multiples of     *)
(* 1 / CoordUnit.  radius = sqrt(expected_neighbors / (size - 1) / pi) is  *)
(* kept as its square, a fraction <<numerator, denominator>>, with pi      *)
(* replaced by 355 / 113, which decides every comparison made here as pi   *)
(* does.                                                                   *)
(***************************************************************************)

MaxCartesianNodes == 3

CoordUnit == 8

XCoords == {0, 4}

YCoords == {0, 4, 7}

pi == <<355, 113>>

\* build_graph: radius * radius (radius is 1 when size is 1)
radius_squared(size, expected_neighbors) ==
    IF size = 1 THEN <<1, 1>>
    ELSE <<expected_neighbors * pi[2], (size - 1) * pi[1]>>

\* build_graph: int(ceil(1 / radius))
num_bins(rsq) ==
    CHOOSE j \in 1 .. (rsq[2] \div rsq[1] + 1) :
        /\ j * j * rsq[1] >= rsq[2]
        /\ \A i \in 1 .. (j - 1) : i * i * rsq[1] < rsq[2]

\* build_graph: int(floor(coord / radius))
bin_of(coord, rsq) ==
    CHOOSE j \in 0 .. num_bins(rsq) :
        /\ j * j * rsq[1] * CoordUnit * CoordUnit <= coord * coord * rsq[2]
        /\ (j + 1) * (j + 1) * rsq[1] * CoordUnit * CoordUnit > coord * coord * rsq[2]

\* CartesianTopology.within_range: euclidean_distance(node1, node2, periodic) < distance
within_range(node1, node2, rsq, periodic) ==
    euclidean_distance(node1, node2, periodic, CoordUnit)[2] * rsq[2]
        < rsq[1] * CoordUnit * CoordUnit

\* The index of neighbor_bins[x][y] in the order in which the bins are processed
bin_index(nb, x, y) == x * nb + y

RECURSIVE nodes_in_bin(_, _, _, _, _)
\* build_graph: neighbor_bins[x][y] once the nodes below n have been put into
\* their bins, in node order
nodes_in_bin(coords, rsq, x, y, n) ==
    IF n = 0 THEN << >>
    ELSE LET rest == nodes_in_bin(coords, rsq, x, y, n - 1)
             node == n - 1
         IN  IF bin_of(coords[node][1], rsq) = x /\ bin_of(coords[node][2], rsq) = y
             THEN Append(rest, node)
             ELSE rest

Range(s) == {s[i] : i \in DOMAIN s}

\* build_graph: the potential neighbors of the nodes of neighbor_bins[x][y]:
\* the nodes in the bins px in x-1 .. x+1 and py in range(y - y, y + 1 + 1)
potentials(bins, nb, periodic, x, y) ==
    UNION {Range(bins[bin_index(nb, px % nb, py % nb)]) :
              <<px, py>> \in {<<px, py>> \in ((x - 1) .. (x + 1)) \X ((y - y) .. (y + 1)) :
                                 /\ periodic \/ ~(px < 0 \/ px >= nb)
                                 /\ periodic \/ ~(py < 0 \/ py >= nb)}}

\* list.remove(node)
list_remove(lst, node) == SelectSeq(lst, LAMBDA m : m # node)

\* Topology.relabel_nodes: the nodes are numbered 0 .. len(graph)-1 in order
relabel(g) ==
    LET rank(n) == Cardinality({m \in DOMAIN g : m < n})
        node_at(k) == CHOOSE n \in DOMAIN g : rank(n) = k
    IN  [k \in 0 .. (Cardinality(DOMAIN g) - 1) |-> {rank(m) : m \in g[node_at(k)]}]

relabel_coords(g, coords) ==
    LET rank(n) == Cardinality({m \in DOMAIN g : m < n})
        node_at(k) == CHOOSE n \in DOMAIN g : rank(n) = k
    IN  [k \in 0 .. (Cardinality(DOMAIN g) - 1) |-> coords[node_at(k)]]

\* The configurations CartesianTopology.__init__ accepts
CartesianTopology_accepts(size, expected_neighbors) ==
    size >= 1 /\ expected_neighbors >= 0 /\ expected_neighbors <= size

\* A CartesianTopology about to be built; coords are the points random.random()
\* will give the nodes
InitCartesian ==
    /\ no_cells
    /\ no_resources
    /\ no_population
    /\ no_experiment
    /\ call = << >>
    /\ \E size \in 1 .. MaxCartesianNodes :
       \E expected_neighbors \in 0 .. size :
          /\ CartesianTopology_accepts(size, expected_neighbors)
          /\ topology \in
                [kind : {"CartesianTopology"}, size : {size},
                 expected_neighbors : {expected_neighbors},
                 periodic : BOOLEAN, remove_disconnected : BOOLEAN,
                 coords : [0 .. (size - 1) -> XCoords \X YCoords],
                 graph : {<< >>}, bins : {<< >>}, potentials : {{}}, forced : {{}},
                 step : {0}, i : {0}, state : {"new"}]

\* build_graph up to the loop over the bins: the radius (1 / radius divides by
\* zero when expected_neighbors is 0 and size is not 1), the bins, the graph
CartesianTopology_build_graph ==
    /\ topology # << >> /\ topology.kind = "CartesianTopology" /\ topology.state = "new"
    /\ LET rsq == radius_squared(topology.size, topology.expected_neighbors) IN
       IF rsq[1] = 0
       THEN topology' = [topology EXCEPT !.state = "raised"]
       ELSE LET nb == num_bins(rsq)
                filled == [b \in 0 .. (nb * nb - 1) |->
                              nodes_in_bin(topology.coords, rsq, b \div nb, b % nb,
                                           topology.size)]
            IN  topology' = [topology EXCEPT
                    !.graph = empty_graph(topology.size),
                    !.bins = filled,
                    !.potentials = potentials(filled, nb, topology.periodic, 0, 0),
                    !.state = "building"]
    /\ UNCHANGED call
    /\ unchanged_by_topology

\* build_graph: one iteration of `for node in neighbor_bins[x][y]` (the i-th
\* element of the list as it is now).  Looking up the coords of a potential
\* that has been removed from the graph raises KeyError.
CartesianTopology_build_graph_node ==
    /\ topology # << >> /\ topology.kind = "CartesianTopology"
    /\ topology.state = "building"
    /\ topology.i < Len(topology.bins[topology.step])
    /\ LET rsq == radius_squared(topology.size, topology.expected_neighbors)
           node == topology.bins[topology.step][topology.i + 1]
           G == topology.graph
           near == {potential \in topology.potentials :
                       /\ within_range(topology.coords[node], topology.coords[potential],
                                       rsq, topology.periodic)
                       /\ node # potential}
           linked == add_edges(G, node, near)
       IN  IF ~(topology.potentials \subseteq DOMAIN G)
           THEN topology' = [topology EXCEPT !.state = "raised"]
           ELSE IF linked[node] # {}
           THEN topology' = [topology EXCEPT !.graph = linked, !.i = @ + 1]
           ELSE IF topology.remove_disconnected
           THEN topology' = [topology EXCEPT
                    !.graph = graph_remove_node(linked, node),
                    !.bins[topology.step] = list_remove(@, node),
                    !.i = @ + 1]
           ELSE \E choice \in topology.potentials :
                    topology' = [topology EXCEPT
                        !.graph = add_edges(linked, node, {choice}),
                        !.forced = @ \cup {{node, choice}},
                        !.i = @ + 1]
    /\ UNCHANGED call
    /\ unchanged_by_topology

\* build_graph: the list of the bin is exhausted; the bin is emptied and the
\* next bin begins, or the graph is returned, and __init__ relabels the nodes
\* if some were removed
CartesianTopology_build_graph_bin ==
    /\ topology # << >> /\ topology.kind = "CartesianTopology"
    /\ topology.state = "building"
    /\ topology.i >= Len(topology.bins[topology.step])
    /\ LET rsq == radius_squared(topology.size, topology.expected_neighbors)
           nb == num_bins(rsq)
           emptied == [topology.bins EXCEPT ![topology.step] = << >>]
           next == topology.step + 1
           G == topology.graph
       IN  IF next = nb * nb
           THEN topology' = [topology EXCEPT
                    !.bins = emptied,
                    !.potentials = {},
                    !.step = next,
                    !.i = 0,
                    !.graph = IF topology.remove_disconnected
                                 /\ Cardinality(DOMAIN G) < topology.size
                              THEN relabel(G) ELSE G,
                    !.coords = IF topology.remove_disconnected
                                  /\ Cardinality(DOMAIN G) < topology.size
                               THEN relabel_coords(G, @) ELSE @,
                    !.state = "built"]
           ELSE topology' = [topology EXCEPT
                    !.bins = emptied,
                    !.potentials = potentials(emptied, nb, topology.periodic,
                                              next \div nb, next % nb),
                    !.step = next,
                    !.i = 0]
    /\ UNCHANGED call
    /\ unchanged_by_topology

NextCartesian ==
    \/ CartesianTopology_build_graph
    \/ CartesianTopology_build_graph_node
    \/ CartesianTopology_build_graph_bin

SpecCartesian == InitCartesian /\ [][NextCartesian]_vars

cartesian(state) ==
    /\ topology # << >>
    /\ topology.kind = "CartesianTopology"
    /\ topology.state = state

\* C27: in the graph a CartesianTopology is built with, two distinct nodes are
\* adjacent if and only if their Euclidean distance (around the boundary when
\* periodic) is less than the radius -- the edge set of the all-pairs rule.
\* (An edge made to connect a node that had no neighbor is not counted.)
C27_BinnedEdgesAreAllPairsEdges ==
    cartesian("built") =>
        \A a \in DOMAIN topology.graph : \A b \in DOMAIN topology.graph \ {a} :
            (b \in topology.graph[a] /\ {a, b} \notin topology.forced)
                <=> within_range(topology.coords[a], topology.coords[b],
                                 radius_squared(topology.size, topology.expected_neighbors),
                                 topology.periodic)


\* C28: with remove_disconnected enabled the construction of a
\* CartesianTopology completes, and the graph it is built with has no node
\* without neighbors.
C28_NoNodeWithoutNeighborsIsKept ==
    ((cartesian("built") \/ cartesian("raised")) /\ topology.remove_disconnected) =>
        /\ topology.state = "built"
        /\ \A n \in DOMAIN topology.graph : topology.graph[n] # {}

\* C29: with remove_disconnected disabled a node that would have no neighbor is
\* connected to another node, never to itself: once the CartesianTopology is
\* built every node has a neighbor other than itself and none is its own
\* neighbor.
C29_ForcedNeighborIsAnotherNode ==
    (cartesian("built") /\ ~topology.remove_disconnected) =>
        \A n \in DOMAIN topology.graph :
            /\ topology.graph[n] \ {n} # {}
            /\ n \notin topology.graph[n]

----------------------------------------------------------------------------
(* QuasispeciesCell: reproduction and mutation of bit-string genotypes *)

MaxQuasiNodes == 2
GenotypeLength == 2

\* random.random() and the rates it is compared with, in units of 1/2:
\* random() is in [0, 1), site_mut_rate and death_rate are 0, 1/2 or 1
RandomDraws == {0, 1}
Rates == {0, 1, 2}

\* QuasispeciesCell.flip_bit
flip_bit(bit) == IF bit = 0 THEN 1 ELSE 0

\* Faulty variant of mutate that flips a bit when random() <= site_mut_rate
mutate_at_most(genotype, draws, site_mut_rate) ==
    [i \in DOMAIN genotype |->
        IF draws[i] <= site_mut_rate THEN flip_bit(genotype[i]) ELSE genotype[i]]

\* QuasispeciesCell.mutate: bit i is flipped when its draw of random() is below
\* site_mut_rate
mutate(genotype, draws, site_mut_rate) ==
    [i \in DOMAIN genotype |->
        IF draws[i] < site_mut_rate THEN flip_bit(genotype[i]) ELSE genotype[i]]

\* QuasispeciesCell.__init__: a random genotype whose first bit is max(type - 1, 0)
initial_genotypes(type) ==
    {g \in [1 .. GenotypeLength -> {0, 1}] : g[1] = (IF type - 1 > 0 THEN type - 1 ELSE 0)}

\* QuasispeciesCell.__init__ raises ConfigurationError for these values
QuasispeciesCell_accepts(death_rate, genotype_length, site_mut_rate) ==
    /\ death_rate >= 0
    /\ genotype_length > 1
    /\ site_mut_rate >= 0

\* A population of QuasispeciesCell objects, each made by
\* QuasispeciesCell(experiment, population, id) and stored on node id.
\* (Population.__init__ itself calls the class with node=..., label=..., which
\* QuasispeciesCell.__init__ does not take.)
InitQuasispecies ==
    /\ no_resources
    /\ no_experiment
    /\ cell_class = "QuasispeciesCell"
    /\ \E n \in 1 .. MaxQuasiNodes :
          /\ nodes = 0 .. (n - 1)
          /\ adj \in Graphs(n)
          /\ ctype \in [0 .. (n - 1) -> TypesOf(cell_class)]
          /\ cell_attrs \in [0 .. (n - 1) -> [genotype : [1 .. GenotypeLength -> {0, 1}]]]
          /\ \A c \in 0 .. (n - 1) : cell_attrs[c].genotype \in initial_genotypes(ctype[c])
          /\ cneighbors = [c \in 0 .. (n - 1) |-> {}]
          /\ cell_id = [c \in 0 .. (n - 1) |-> c]
          /\ cell_id_manager = n
          /\ data = [type_count |-> construct_type_count(ctype, n),
                     transitions |-> << >>]
          /\ nodes_at_start = n
    /\ config \in [death_rate : Rates, site_mut_rate : Rates]
    /\ QuasispeciesCell_accepts(config.death_rate, GenotypeLength, config.site_mut_rate)
    /\ topology = << >>
    /\ call = << >>
    /\ events_per_epoch = << >>
    /\ user_events = events_per_epoch
    /\ samples_left = 0
    /\ pc = "idle"
    /\ epoch_start = ctype
    /\ updates_done = 0
    /\ type_changes = 0
    /\ ran = FALSE
    /\ prev_changed = FALSE

\* self.population.update_type_count(fromtype, totype) called by the Cell on node n
\* whose type and genotype become `type` and `genotype`: type_count is
\* decremented and incremented, then add_transition raises IndexError when the
\* transitions matrix has no such entry, and the exception leaves the update.
Population_update_type_count(n, fromtype, totype, type_after, genotype, record) ==
    LET raised == add_transition_raises(data.transitions, fromtype, totype)
        counted == increment_type_count(
                       decrement_type_count(data.type_count, fromtype), totype)
    IN  /\ cell_attrs' = [cell_attrs EXCEPT ![n].genotype = genotype]
        /\ IF raised
           THEN /\ data' = [data EXCEPT !.type_count = counted]
                /\ ctype' = [ctype EXCEPT ![n] = totype]
                /\ call' = [record EXCEPT !.raised = "IndexError"]
                /\ samples_left' = 0
                /\ pc' = "crashed"
                /\ UNCHANGED <<updates_done, type_changes>>
           ELSE /\ data' = update_type_count(data, fromtype, totype)
                /\ ctype' = [ctype EXCEPT ![n] = type_after]
                /\ call' = record
                /\ type_changes' = IF fromtype # type_after
                                   THEN type_changes + 1 ELSE type_changes
                /\ next_sample

\* QuasispeciesCell.update on the sampled node.  choose_neighbor can return any
\* of the neighbors: the first one when random() gives 0.0, the last one when
\* the loop finds none, one in between when random() equals the partial sum.
QuasispeciesCell_update ==
    /\ pc = "updating" /\ samples_left > 0
    /\ cell_class = "QuasispeciesCell"
    /\ \E n \in sample_with_replacement_item(nodes) :
       LET record == [node |-> n, parent |-> << >>, reproduced |-> FALSE,
                      died |-> FALSE, raised |-> ""]
       IN
       IF ctype[n] = EMPTY
       THEN IF adj[n] = {}
            THEN \* choose_neighbor: orgs[-1] of an empty list
                 /\ call' = [record EXCEPT !.raised = "IndexError"]
                 /\ samples_left' = 0
                 /\ pc' = "crashed"
                 /\ UNCHANGED <<ctype, cell_attrs, data, updates_done, type_changes>>
            ELSE \E parent \in adj[n] :
                 \E draws \in [1 .. GenotypeLength -> RandomDraws] :
                    IF ctype[parent] # EMPTY
                    THEN LET genotype == mutate(cell_attrs[parent].genotype, draws,
                                                config.site_mut_rate)
                         IN  Population_update_type_count(
                                 n, EMPTY, genotype[1] + 1, genotype[1] + 1, genotype,
                                 [record EXCEPT !.parent = <<cell_attrs[parent].genotype>>,
                                                !.reproduced = TRUE])
                    ELSE Population_update_type_count(
                             n, EMPTY, EMPTY, EMPTY, cell_attrs[n].genotype, record)
       ELSE \E draw \in RandomDraws :
               IF draw < config.death_rate
               THEN \* update_type_count comes before self.type = EMPTY
                    Population_update_type_count(
                        n, ctype[n], EMPTY, EMPTY, cell_attrs[n].genotype,
                        [record EXCEPT !.died = TRUE])
               ELSE /\ call' = record
                    /\ next_sample
                    /\ UNCHANGED <<ctype, cell_attrs, data, type_changes>>
    /\ UNCHANGED <<cell_class, nodes, adj, cneighbors, cell_id, cell_id_manager,
                   events_per_epoch, user_events, nodes_at_start, epoch_start,
                   ran, prev_changed>>
    /\ UNCHANGED <<topology, config>>
    /\ UNCHANGED resvars
    /\ UNCHANGED schedvars
    /\ UNCHANGED expvars

NextQuasispecies ==
    \/ Population_update
    \/ QuasispeciesCell_update
    \/ Population_update_return

SpecQuasispecies == InitQuasispecies /\ [][NextQuasispecies]_vars

----------------------------------------------------------------------------
(* seeds.utils.sampling.roulette_select *)

MaxItems == 3
MaxFitness == 2
MaxWinners == 2

RECURSIVE sum(_)
sum(s) == IF s = << >> THEN 0 ELSE s[1] + sum(Tail(s))

\* p[i] * total_fitness: the sum of the first i fitnesses.  random() < p[i] is
\* decided on random() * total_fitness, which is in [0, total_fitness); a draw d
\* stands for the values of [d, d + 1), all of which compare alike with a sum of
\* whole fitnesses.
cumulative_fitness(fitnesses, i) == sum(SubSeq(fitnesses, 1, i))

\* One pass of the for loop: the items whose own draw of random() is below p[i]
selected_by(fitnesses, draws) ==
    {i \in 1 .. Len(fitnesses) : draws[i] < cumulative_fitness(fitnesses, i)}

\* A call roulette_select(items, fitnesses, k) about to be made: the items are
\* named by their positions
InitRoulette ==
    /\ no_resources
    /\ no_population
    /\ no_experiment
    /\ cell_attrs = << >>
    /\ topology = << >>
    /\ \E len \in 1 .. MaxItems :
          config \in [fitnesses : [1 .. len -> 0 .. MaxFitness], k : 1 .. MaxWinners]
    /\ call = [winners |-> << >>, raised |-> "", returned |-> FALSE]

\* Lines 37-39: the relative fitnesses divide by the total fitness
\* Lines 42-46: one iteration of the while loop.  Every item of the pass is
\* compared with a fresh random(); the first one whose draw is below p[i] wins.
roulette_select ==
    /\ call.raised = "" /\ ~call.returned
    /\ Len(call.winners) < config.k
    /\ LET total_fitness == sum(config.fitnesses) IN
       IF total_fitness = 0
       THEN call' = [call EXCEPT !.raised = "ZeroDivisionError"]
       ELSE \E draws \in [1 .. Len(config.fitnesses) -> 0 .. (total_fitness - 1)] :
               LET S == selected_by(config.fitnesses, draws) IN
               IF S = {} THEN call' = call
               ELSE LET i == CHOOSE j \in S : \A m \in S : j <= m
                    IN  call' = [call EXCEPT !.winners = Append(@, i)]
    /\ UNCHANGED <<popvars, resvars, expvars, schedvars>>
    /\ UNCHANGED <<topology, cell_attrs, config>>

\* Line 48
roulette_select_return ==
    /\ call.raised = "" /\ ~call.returned
    /\ Len(call.winners) >= config.k
    /\ call' = [call EXCEPT !.returned = TRUE]
    /\ UNCHANGED <<popvars, resvars, expvars, schedvars>>
    /\ UNCHANGED <<topology, cell_attrs, config>>

NextRoulette ==
    \/ roulette_select
    \/ roulette_select_return

SpecRoulette == InitRoulette /\ [][NextRoulette]_vars

\* C37: when at least one fitness is positive, every item roulette_select
\* returns has a fitness greater than zero.
C37_ZeroFitnessNeverSelected ==
    (call.returned /\ sum(config.fitnesses) > 0)
        => \A w \in 1 .. Len(call.winners) : config.fitnesses[call.winners[w]] > 0

----------------------------------------------------------------------------
(* SquareResource: a resource whose level is a square wave of the epoch *)

MaxPeriod == 3
MaxOffset == 3

\* duty_cycle as <<numerator, denominator>>
DutyCycles == {<<0, 1>>, <<1, 2>>, <<1, 1>>}
SquareLevels == {0, 1, 2}

\* Python's a % b for b > 0: the result is in 0 .. b - 1 also when a < 0
python_mod(a, b) == ((a % b) + b) % b

\* SquareResource.__init__ raises ConfigurationError for these values
SquareResource_accepts(period, high, low, duty_cycle, offset) ==
    /\ period > 0
    /\ high >= low
    /\ duty_cycle[1] >= 0
    /\ duty_cycle[1] <= duty_cycle[2]
    /\ offset >= 0

\* Lines 174-179: position = ((epoch - offset) % period) / (period * 1.0) is
\* compared with duty_cycle
SquareResource_level(e, cfg) ==
    LET position == python_mod(e - cfg.offset, cfg.period) IN
    IF position * cfg.duty_cycle[2] < cfg.duty_cycle[1] * cfg.period
    THEN cfg.high
    ELSE cfg.low

\* A SquareResource of one cell once __init__ has returned: its last statement
\* is self.update(), at epoch 0
InitSquare ==
    /\ no_population
    /\ cell_attrs = << >>
    /\ topology = << >>
    /\ visited = {}
    /\ seed = << >>
    /\ config \in [period : 1 .. MaxPeriod, high : SquareLevels, low : SquareLevels,
                   duty_cycle : DutyCycles, offset : 0 .. MaxOffset]
    /\ SquareResource_accepts(config.period, config.high, config.low,
                              config.duty_cycle, config.offset)
    /\ epoch = 0
    /\ level = [c \in {0} |-> SquareResource_level(epoch, config)]
    /\ levels = level
    /\ call = [epoch |-> epoch]
    /\ res_adj = edge_graph(1, {})
    /\ inflow = <<0, 0>>
    /\ decay = <<0, 0>>
    /\ diffusion = <<0, 0>>
    /\ initial = <<0, 0>>
    /\ res_updates = 0
    /\ last_update = << >>
    /\ proceed = TRUE
    /\ experiment_epochs = -1
    /\ exp_pc = "resources"
    /\ threshold = << >>
    /\ soc_epoch_start = 0
    /\ end_epoch = -1
    /\ pop_updates = 0
    /\ res_rounds = 0
    /\ last_soc = << >>

\* Experiment.update, line 218: SquareResource.update sets the level of the
\* current epoch and mirrors it in data['resources'][name]['levels']
SquareResource_update ==
    /\ exp_pc = "resources"
    /\ level' = [c \in DOMAIN level |-> SquareResource_level(epoch, config)]
    /\ levels' = level'
    /\ call' = [epoch |-> epoch]
    /\ exp_pc' = "population"
    /\ UNCHANGED <<res_adj, inflow, decay, diffusion, initial, res_updates, last_update>>
    /\ UNCHANGED <<epoch, proceed, experiment_epochs, threshold, soc_epoch_start,
                   end_epoch, pop_updates, res_rounds, last_soc>>
    /\ UNCHANGED <<popvars, schedvars>>
    /\ UNCHANGED <<topology, cell_attrs, config>>

\* Experiment.update, line 220: the epoch is over
Experiment_update_epoch ==
    /\ exp_pc = "population"
    /\ epoch < MaxEpochs
    /\ epoch' = epoch + 1
    /\ exp_pc' = "resources"
    /\ UNCHANGED <<proceed, experiment_epochs, threshold, soc_epoch_start,
                   end_epoch, pop_updates, res_rounds, last_soc>>
    /\ UNCHANGED <<popvars, resvars, schedvars, topovars, cellvars>>

NextSquare ==
    \/ SquareResource_update
    \/ Experiment_update_epoch

SpecSquare == InitSquare /\ [][NextSquare]_vars

\* C32: with duty_cycle > 0, the level set at an epoch before offset is low and
\* the level set at epoch = offset is high.
C32_OffsetIsEpochsBeforeFirstHigh ==
    config.duty_cycle[1] > 0
        => /\ call.epoch < config.offset => level[0] = config.low
           /\ call.epoch = config.offset => level[0] = config.high

----------------------------------------------------------------------------
(* RPSCell: what follows the loss of one of the three types *)

\* Number of cells of type t in the population
cells_of_type(types, t) == Cardinality({n \in DOMAIN types : types[n] = t})

\* The type that replaces type t in a competition: Paper replaces Rock,
\* Scissors replaces Paper, Rock replaces Scissors
replaced_by(t) == (t + 1) % 3

----------------------------------------------------------------------------
(* Topology.add_node and Topology.add_edge as the base class defines them *)

MaxBaseNodes == 2
MaxNeighborArgs == 2

\* graph.add_edge(a, b) between two nodes of the graph
graph_add_edge(g, a, b) ==
    [m \in DOMAIN g |-> IF m = a THEN g[m] \cup {b}
                        ELSE IF m = b THEN g[m] \cup {a}
                        ELSE g[m]]

\* Lines 155-158 of add_node over the neighbors still to connect: the graph the
\* loop leaves, and the neighbor it raised NonExistentNodeError for (<< >> when
\* it reached the end of the list)
RECURSIVE connect_neighbors(_, _, _)
connect_neighbors(g, id, neighbors) ==
    IF neighbors = << >> THEN [graph |-> g, missing |-> << >>]
    ELSE IF Head(neighbors) \notin DOMAIN g
    THEN [graph |-> g, missing |-> <<Head(neighbors)>>]
    ELSE connect_neighbors(graph_add_edge(g, id, Head(neighbors)), id, Tail(neighbors))

\* A Topology whose class keeps the methods of Topology, once Topology.__init__
\* has returned: an empty graph, dimensions = 0
InitBase ==
    /\ no_resources
    /\ no_population
    /\ no_experiment
    /\ cell_attrs = << >>
    /\ config = << >>
    /\ topology = [kind |-> "Topology", graph |-> << >>, dimensions |-> 0,
                   state |-> "built"]
    /\ call = << >>

\* Topology.add_node(id, neighbors, coords).  The arguments: id is << >> for
\* None; coords is << >> for None.  `if not id` also takes 0 for a missing id.
Topology_base_add_node ==
    /\ topology # << >> /\ topology.kind = "Topology"
    /\ \E id \in {<< >>} \cup {<<i>> : i \in 0 .. MaxBaseNodes} :
       \E len \in 0 .. MaxNeighborArgs :
       \E neighbors \in [1 .. len -> 0 .. MaxBaseNodes] :
       \E coords \in {<< >>, <<0, 0>>} :
          LET g == topology.graph
              record == [op |-> "add_node", raised |-> "none", graph |-> g]
              no_id == id = << >> \/ id[1] = 0
          IN
          IF no_id /\ DOMAIN g = {}
          THEN \* max() of an empty list
               /\ call' = [record EXCEPT !.raised = "ValueError"]
               /\ UNCHANGED topology
          ELSE IF coords # << >> /\ topology.dimensions # Len(coords)
          THEN /\ call' = [record EXCEPT !.raised = "SEEDSError"]
               /\ UNCHANGED topology
          ELSE LET new == IF no_id THEN max_node(g) + 1 ELSE id[1]
                   done == connect_neighbors(graph_add_node(g, new), new, neighbors)
               IN  /\ new <= MaxBaseNodes
                   /\ topology' = [topology EXCEPT !.graph = done.graph]
                   /\ call' = IF done.missing = << >> THEN record
                              ELSE [record EXCEPT !.raised = "NonExistentNodeError"]
    /\ unchanged_by_topology

\* Topology.add_edge(src, dest)
Topology_base_add_edge ==
    /\ topology # << >> /\ topology.kind = "Topology"
    /\ \E src, dest \in 0 .. MaxBaseNodes :
          LET g == topology.graph
              record == [op |-> "add_edge", raised |-> "none", graph |-> g]
          IN
          IF src \notin DOMAIN g \/ dest \notin DOMAIN g
          THEN /\ call' = [record EXCEPT !.raised = "NonExistentNodeError"]
               /\ UNCHANGED topology
          ELSE /\ call' = record
               /\ topology' = [topology EXCEPT !.graph = graph_add_edge(g, src, dest)]
    /\ unchanged_by_topology

NextBase ==
    \/ Topology_base_add_node
    \/ Topology_base_add_edge

SpecBase == InitBase /\ [][NextBase]_vars

\* C39: an add_node or add_edge call that raised NonExistentNodeError has left
\* the graph as it was before the call.
C39_RejectedCallLeavesGraph ==
    (call # << >> /\ call.raised = "NonExistentNodeError")
        => topology.graph = call.graph

----------------------------------------------------------------------------
(* RPSCell with distance_dependent = True: the distances to the neighbors *)

\* Topology.node_distance(src, dest) raises NonExistentNodeError when one of the
\* two ids is not a node of the graph
Topology_node_distance_raises(src, dest) == src \notin nodes \/ dest \notin nodes

\* Population.cell_distance(src, dest) = topology.node_distance(src.id, dest.id):
\* the two nodes whose coordinates the distance is computed from, given the
\* nodes the two Cells are on
Population_cell_distance(src, dest) == <<cell_id[src], cell_id[dest]>>

\* An RPSCell population on a fixed topology whose nodes have coordinates, with
\* distance_dependent = True
InitDistance ==
    /\ no_resources
    /\ no_experiment
    /\ InitPopulation(MaxNodes, {<< >>})
    /\ cell_class = "RPSCell"
    /\ cell_attrs = << >>
    /\ config = [distance_dependent |-> TRUE]
    /\ topology = << >>
    /\ call = << >>

\* RPSCell.update with distance_dependent: get_neighbor_distances measures every
\* neighbor get_neighbors returns (on a fixed topology the cells of
\* self.neighbors, in the same order); every inverse distance is positive, so
\* roulette_select can return any of the neighbors.
RPSCell_update_distance_dependent ==
    /\ pc = "updating" /\ samples_left > 0
    /\ cell_class = "RPSCell" /\ config.distance_dependent
    /\ \E n \in sample_with_replacement_item(nodes) :
          IF cneighbors[n] = {}
          THEN /\ keep_type /\ next_sample
               /\ UNCHANGED <<cell_id, cell_id_manager, call>>
          ELSE IF \E m \in adj[n] :
                     Topology_node_distance_raises(cell_id[n], cell_id[m])
          THEN /\ raise_exception
               /\ call' = [node |-> n, raised |-> "NonExistentNodeError",
                           measured |-> << >>]
          ELSE /\ call' = [node |-> n, raised |-> "",
                           measured |-> [m \in adj[n] |-> Population_cell_distance(n, m)]]
               /\ \E competitor \in cneighbors[n] :
                     LET new == RPS_outcome(ctype[n], neighbor_type(competitor)) IN
                     /\ IF new # ctype[n]
                        THEN /\ set_type(n, ctype[n], new)
                             /\ cell_id' = [cell_id EXCEPT ![n] = cell_id_manager]
                             /\ cell_id_manager' = get_cell_id_next(cell_id_manager)
                        ELSE /\ keep_type
                             /\ UNCHANGED <<cell_id, cell_id_manager>>
                     /\ next_sample
    /\ UNCHANGED <<cell_class, nodes, adj, cneighbors, events_per_epoch,
                   user_events, nodes_at_start, epoch_start, ran, prev_changed>>
    /\ UNCHANGED <<topology, cell_attrs, config>>
    /\ UNCHANGED resvars
    /\ UNCHANGED schedvars
    /\ UNCHANGED expvars

NextDistance ==
    \/ Population_update
    \/ RPSCell_update_distance_dependent
    \/ Population_update_return

SpecDistance == InitDistance /\ [][NextDistance]_vars

\* C35: in distance-dependent mode every update computes the distances without
\* failing, and the distance that weights a neighbor is the one between the
\* node of the updated cell and the node of that neighbor.
C35_DistancesAreBetweenOwnNodeAndNeighbor ==
    call # << >>
        => /\ call.raised = ""
           /\ \A m \in DOMAIN call.measured : call.measured[m] = <<call.node, m>>

----------------------------------------------------------------------------
(* lettuce: GECCO2011Cell, the host/parasite model, and Topology.typeCount *)

MaxHostNodes == 2

\* Virulence in units of 1 / VirulenceUnit: VirulenceUnit stands for 1.0
VirulenceUnit == 2

UNINFECTEDS == 1
UNINFECTEDR == 2
INFECTEDS == 3
INFECTEDR == 4

GECCO2011Types == 0 .. 4

\* random.normalvariate(v, sigma) with sigma > 0: any real, also outside [0, 1]
NormalDraws == (-1) .. (VirulenceUnit + 1)

\* mutation_rate in units of 1/2, compared with a draw of RandomDraws
MutationRates == {0, 1}

\* max(lo, min(hi, x))
clamp(lo, hi, x) ==
    LET upper == IF x < hi THEN x ELSE hi
    IN  IF lo > upper THEN lo ELSE upper

\* lettuce Topology.update_type_count: decrement_type_count(fromtype), then
\* x = self.typeCount[totype], then increment_type_count(totype).  Each of the
\* two reads raises IndexError when typeCount has no such entry; what was
\* decremented stays decremented.
Topology_update_type_count(tc, fromtype, totype) ==
    IF decrement_type_count_raises(tc, fromtype)
    THEN [tc |-> tc, raised |-> TRUE]
    ELSE LET dec == decrement_type_count(tc, fromtype) IN
         IF totype >= Len(dec)
         THEN [tc |-> dec, raised |-> TRUE]
         ELSE [tc |-> increment_type_count(dec, totype), raised |-> FALSE]

\* The graphs CartesianTopology.setup_graph builds on n nodes: every node has
\* an edge, which may join it to itself
HostGraphs(n) ==
    {g \in [0 .. (n - 1) -> SUBSET (0 .. (n - 1))] :
        /\ \A a, b \in 0 .. (n - 1) : b \in g[a] <=> a \in g[b]
        /\ \A a \in 0 .. (n - 1) : g[a] # {}}

\* The cells of a CartesianTopology once its constructor has returned:
\* GECCO2011Cell.__init__ draws the type and the virulence of each
InitGECCO ==
    /\ no_resources
    /\ no_experiment
    /\ cell_class = "GECCO2011Cell"
    /\ config \in [minv : 0 .. VirulenceUnit, maxv : 0 .. VirulenceUnit,
                   mu : MutationRates]
    /\ config.minv <= config.maxv
    /\ \E n \in 1 .. MaxHostNodes :
          /\ nodes = 0 .. (n - 1)
          /\ adj \in HostGraphs(n)
          /\ ctype \in [0 .. (n - 1) -> GECCO2011Types]
          /\ cell_attrs \in [0 .. (n - 1) -> [v : config.minv .. config.maxv]]
          /\ cell_id = [c \in 0 .. (n - 1) |-> c]
          /\ cell_id_manager = n
          /\ data = [type_count |-> construct_type_count(ctype, n),
                     transitions |-> << >>]
          /\ nodes_at_start = n
    /\ cneighbors = adj
    /\ topology = << >>
    /\ call = << >>
    /\ events_per_epoch = << >>
    /\ user_events = events_per_epoch
    /\ samples_left = 0
    /\ pc = "idle"
    /\ epoch_start = ctype
    /\ updates_done = 0
    /\ type_changes = 0
    /\ ran = FALSE
    /\ prev_changed = FALSE

\* What an update leaves: the types, the virulences, typeCount, and the
\* exception that left it ("" when it returned)
outcome(types, attrs, tc, raised) ==
    [ctype |-> types, cell_attrs |-> attrs, type_count |-> tc, raised |-> raised]

\* self.topology.update_type_count(fromtype, totype) as the last statement of a
\* branch: `types` and `attrs` are what the branch has assigned before the call
\* and `after` is the type cell c is given after it
reported(types, attrs, c, fromtype, totype, after) ==
    LET r == Topology_update_type_count(data.type_count, fromtype, totype) IN
    IF r.raised
    THEN outcome(types, attrs, r.tc, "IndexError")
    ELSE outcome([types EXCEPT ![c] = after], attrs, r.tc, "")

\* Lines 145-173: the types and virulences an offspring of `parent` can get
offspring(n, parent) ==
    LET ptype == ctype[parent]
        mutated == {d \in RandomDraws : d < config.mu} # {}
        virulences ==
            {cell_attrs[parent].v} \cup
            (IF mutated
             THEN {clamp(config.minv, config.maxv, d) : d \in NormalDraws}
             ELSE {})
    IN
    IF ptype \in {INFECTEDS, INFECTEDR}
    THEN \* vertical transmission, or an uninfected offspring
         {[type |-> t, v |-> v] :
             t \in {ptype} \cup
                   (IF mutated
                    THEN {IF ptype = INFECTEDS THEN INFECTEDR ELSE INFECTEDS}
                    ELSE {}),
             v \in virulences}
         \cup {[type |-> UNINFECTEDS, v |-> cell_attrs[n].v]}
    ELSE {[type |-> t, v |-> cell_attrs[n].v] :
             t \in {ptype} \cup
                   (IF mutated
                    THEN {IF ptype = UNINFECTEDS THEN UNINFECTEDR ELSE UNINFECTEDS}
                    ELSE {})}

\* Lines 201-217 and 234-250: horizontal transmission from the infected cell n
\* to `neighbor`
horizontal(n, neighbor) ==
    IF ctype[neighbor] # UNINFECTEDS
    THEN {outcome(ctype, cell_attrs, data.type_count, "")}
    ELSE LET first == Topology_update_type_count(data.type_count,
                                                 ctype[neighbor], ctype[n])
             mutated == {d \in RandomDraws : d < config.mu} # {}
             other == IF ctype[n] = INFECTEDS THEN INFECTEDR ELSE INFECTEDS
         IN
         IF first.raised
         THEN {outcome(ctype, cell_attrs, first.tc, "IndexError")}
         ELSE LET types == [ctype EXCEPT ![neighbor] = ctype[n]]
                  virulences ==
                      {cell_attrs[n].v} \cup
                      (IF mutated
                       THEN {clamp(0, VirulenceUnit, d) : d \in NormalDraws}
                       ELSE {})
              IN  UNION {
                    LET attrs == [cell_attrs EXCEPT ![neighbor].v = v]
                        second == Topology_update_type_count(first.tc, ctype[n], other)
                    IN  {outcome(types, attrs, first.tc, "")} \cup
                        (IF ~mutated THEN {}
                         ELSE IF second.raised
                         THEN {outcome(types, attrs, second.tc, "IndexError")}
                         ELSE {outcome([types EXCEPT ![neighbor] = other], attrs,
                                       second.tc, "")})
                    : v \in virulences}

\* GECCO2011Cell.update(neighbors) of the cell on node n.  Every comparison of
\* random.random() with a death rate or a transmission probability can go
\* either way; a comparison with mutation_rate can only succeed when the rate
\* is positive, and one with horiz_trans_prob() only when v is above minv.
GECCO2011Cell_outcomes(n) ==
    LET unchanged == outcome(ctype, cell_attrs, data.type_count, "")
        death == reported(ctype, cell_attrs, n, ctype[n], EMPTY, EMPTY)
    IN
    CASE ctype[n] = EMPTY ->
            UNION {
              IF ctype[parent] = EMPTY THEN {unchanged}
              ELSE {reported([ctype EXCEPT ![n] = o.type],
                             [cell_attrs EXCEPT ![n].v = o.v],
                             n, EMPTY, o.type, o.type) : o \in offspring(n, parent)}
              : parent \in adj[n]}
      [] ctype[n] \in {UNINFECTEDS, UNINFECTEDR} ->
            {unchanged, death}
      [] ctype[n] \in {INFECTEDS, INFECTEDR} ->
            {unchanged, death,
             reported(ctype, cell_attrs, n, ctype[n], UNINFECTEDS, UNINFECTEDS)}
            \cup
            (IF config.maxv = config.minv
             THEN \* horiz_trans_prob divides by maxv - minv
                  {outcome(ctype, cell_attrs, data.type_count, "ZeroDivisionError")}
             ELSE IF cell_attrs[n].v > config.minv
             THEN UNION {horizontal(n, neighbor) : neighbor \in adj[n]}
             ELSE {})

\* Topology.update: a cell is chosen and updated
GECCO2011Cell_update ==
    /\ pc = "idle"
    /\ cell_class = "GECCO2011Cell"
    /\ \E n \in nodes :
       \E o \in GECCO2011Cell_outcomes(n) :
          /\ ctype' = o.ctype
          /\ cell_attrs' = o.cell_attrs
          /\ data' = [data EXCEPT !.type_count = o.type_count]
          /\ call' = [node |-> n, raised |-> o.raised]
          /\ pc' = IF o.raised = "" THEN pc ELSE "crashed"
    /\ UNCHANGED <<cell_class, nodes, adj, cneighbors, cell_id, cell_id_manager,
                   events_per_epoch, samples_left, user_events, nodes_at_start,
                   epoch_start, updates_done, type_changes, ran, prev_changed>>
    /\ UNCHANGED <<topology, config>>
    /\ UNCHANGED resvars
    /\ UNCHANGED schedvars
    /\ UNCHANGED expvars

NextGECCO == GECCO2011Cell_update

SpecGECCO == InitGECCO /\ [][NextGECCO]_vars

\* C34: after any sequence of cell updates of the host/parasite model,
\* typeCount[t] is the number of cells of type t, for every type t (a type
\* typeCount has no entry for yet has no cell).
C34_TypeCountMatchesCells ==
    \A t \in GECCO2011Types :
        cells_of_type(ctype, t) =
            (IF t < Len(data.type_count) THEN data.type_count[t + 1] ELSE 0)

\* C38: every cell's virulence is within [min_virulence, max_virulence].
C38_VirulenceWithinBounds ==
    \A n \in DOMAIN cell_attrs :
        /\ config.minv <= cell_attrs[n].v
        /\ cell_attrs[n].v <= config.maxv

====
